---- MODULE Spec2Model ----
(***************************************************************************)
(* The asynchronous task orchestration core of doc-smith:                  *)
(*   core/services/queue/queue_manager.py   QueueManager, Task             *)
(*   core/services/event_bus/event_bus.py   EventBus, Event                *)
(*   core/services/rate_limiting/rate_limiter.py  RateLimiter              *)
(* The code runs on one asyncio event loop: everything between two         *)
(* suspension points (an await that really suspends) is one atomic step.   *)
(* Each coroutine's position is a pc field naming the await it is          *)
(* suspended in. queue.put() and queue.get() on a non-empty queue do not   *)
(* suspend (the queues are unbounded); a handler call always does.         *)
(***************************************************************************)
EXTENDS Integers, Sequences, FiniteSets, TLC

VARIABLES
    \* ---- QueueManager (queue_manager.py:87-107)
    tasks,            \* self.tasks: task table, task id = position (ids are issued in enqueue order)
    queue,            \* self.queue._queue: the heap array of asyncio.PriorityQueue (task ids)
    unfinished_tasks, \* self.queue._unfinished_tasks (put increments, task_done decrements)
    running_tasks,    \* self.running_tasks
    running,          \* self._running
    workers,          \* self._workers: one record per worker coroutine
    metrics,          \* self.metrics
    correlated_tasks, \* self.correlated_tasks: correlation id -> list of task ids
    stop_pc,          \* position of the QueueManager.stop() call
    clock,            \* the value datetime.now() returned last
    published,        \* the events the manager has passed to event_bus.publish, per task id
    attempts,         \* history: per task, what each handler lookup/invocation did
    last_get,         \* history: the queue.get() results of the last worker step
    \* ---- RateLimiter (rate_limiter.py:23-25)
    windows,          \* self.windows
    \* ---- EventBus (event_bus.py:31-35)
    subscribers,      \* self.subscribers
    event_history,    \* self.event_history
    bus_queue,        \* self._queue._queue (FIFO of events)
    bus_unfinished,   \* self._queue._unfinished_tasks
    bus_running,      \* self._running
    consumers,        \* the _process_events coroutines created by start()
    bus_task,         \* self._task: index into consumers, 0 = None
    bus_stop_pc,      \* position of the EventBus.stop() call
    bus_stop_mark,    \* history: len(event_history) when stop() was called
    dispatched,       \* history: per event uid, the copy of the subscriber list taken for it
    delivered,        \* history: the callback invocations, in order
    \* ---- a RateLimiter with its callers and the wall clock (rate_limiter.py:27-63)
    rl_windows,       \* self.windows, each window with its start_time
    rl_callers,       \* the acquire() calls: one record per call
    rl_now,           \* datetime.now(), in units of 1/Resolution second
    rl_ticks,         \* how often the clock has advanced
    rl_grants,        \* history: the acquire() calls that have returned, in order
    rl_starts,        \* history: the windows created, as (model, start_time)
    \* ---- with_error_handling (error_handler.py:82-132)
    calls             \* the calls of decorated functions: one record per wrapper(...) call

vars == << tasks, queue, unfinished_tasks, running_tasks, running, workers, metrics,
           stop_pc, clock, published, attempts, last_get, windows, correlated_tasks,
           subscribers, event_history, bus_queue,
           bus_unfinished, bus_running, consumers, bus_task, bus_stop_pc, bus_stop_mark,
           dispatched, delivered,
           rl_windows, rl_callers, rl_now, rl_ticks, rl_grants, rl_starts, calls >>

queue_vars == << tasks, queue, unfinished_tasks, running_tasks, running, workers,
                 metrics, stop_pc, clock, published, attempts, last_get, windows,
                 correlated_tasks >>

bus_vars == << subscribers, event_history, bus_queue, bus_unfinished, bus_running,
               consumers, bus_task, bus_stop_pc, bus_stop_mark, dispatched, delivered >>

limiter_vars == << rl_windows, rl_callers, rl_now, rl_ticks, rl_grants, rl_starts >>

wrapper_vars == << calls >>

(***************************************************************************)
(* Bounds of the model.                                                    *)
(***************************************************************************)
MaxTasks == 3          \* enqueue_task calls in one behaviour (dispatch order)
RetryTasks == 2        \* enqueue_task calls in one behaviour (retries, shutdown)
MaxRetriesArg == 2     \* largest max_retries argument passed to enqueue_task
NumWorkers == 2        \* QueueManager(max_concurrent_tasks=NumWorkers)
MaxEvents == 3         \* publish calls in one behaviour of the bus
MaxAcquires == 3       \* acquire calls in one behaviour of the rate limiter
MaxTicks == 3          \* advances of the wall clock in one behaviour
Resolution == 2        \* clock units per second (what timedelta.seconds cuts off)
MaxStarts == 2         \* calls of start() in one behaviour
MaxRejected == 2       \* calls of a method of the queue manager that raise, in one behaviour
MaxStops == 2          \* calls of QueueManager.stop() in one behaviour
MaxCalls == 2          \* calls of functions decorated with with_error_handling
MaxFaults == 1         \* unexpected exceptions in the worker loops in one behaviour

(***************************************************************************)
(* Program constants.                                                      *)
(***************************************************************************)
CRITICAL == 0
HIGH == 1
NORMAL == 2
LOW == 3
BACKGROUND == 4
RATE_LIMIT_REQUESTS == 60
RATE_LIMIT_TOKENS == 90000
\* core/settings.py
MAX_RETRIES == 3
RETRY_DELAY == 1

PENDING == "pending"
RUNNING == "running"
COMPLETED == "completed"
FAILED == "failed"
CANCELLED == "cancelled"
RETRY == "retry"

TaskPriority == CRITICAL..BACKGROUND

NoTask == 0
NoResult == 0
\* Python's None, as a correlation id and as a time
None == "None"
\* started_at and completed_at are kept as None or ATime (a value of datetime.now()):
\* the program reads neither back after queue_time is computed
ATime == "datetime"

\* QueueManager(max_concurrent_tasks=..., task_handlers=...): the instance under study
max_concurrent_tasks == NumWorkers
task_handlers == {"echo"}

Last(s) == s[Len(s)]

(***************************************************************************)
(* Task ordering and the heap of asyncio.PriorityQueue.                    *)
(***************************************************************************)
\* Task.__lt__ comparing the creation times alone
Task_lt_created_at(a, b) == a.created_at < b.created_at

\* Task.__lt__: (priority.value, created_at) compared as tuples
Task_lt(a, b) ==
    \/ a.priority < b.priority
    \/ a.priority = b.priority /\ a.created_at < b.created_at

\* heapq._siftdown(heap, startpos, pos) with newitem = heap[pos]; positions are 0-based
RECURSIVE siftdown(_, _, _, _, _)
siftdown(ts, heap, startpos, pos, newitem) ==
    IF pos > startpos
    THEN LET parentpos == (pos - 1) \div 2
             parent == heap[parentpos + 1]
         IN  IF Task_lt(ts[newitem], ts[parent])
             THEN siftdown(ts, [heap EXCEPT ![pos + 1] = parent], startpos, parentpos, newitem)
             ELSE [heap EXCEPT ![pos + 1] = newitem]
    ELSE [heap EXCEPT ![pos + 1] = newitem]

\* heapq._siftup(heap, pos): bubble the smaller child up to a leaf, then sift newitem down
RECURSIVE siftup_loop(_, _, _, _, _)
siftup_loop(ts, heap, startpos, pos, newitem) ==
    LET endpos == Len(heap)
        childpos == 2 * pos + 1
    IN  IF childpos < endpos
        THEN LET rightpos == childpos + 1
                 c == IF rightpos < endpos
                         /\ ~Task_lt(ts[heap[childpos + 1]], ts[heap[rightpos + 1]])
                      THEN rightpos ELSE childpos
             IN  siftup_loop(ts, [heap EXCEPT ![pos + 1] = heap[c + 1]], startpos, c, newitem)
        ELSE siftdown(ts, [heap EXCEPT ![pos + 1] = newitem], startpos, pos, newitem)

\* PriorityQueue._put: heapq.heappush
heappush(ts, heap, item) ==
    siftdown(ts, Append(heap, item), 0, Len(heap), item)

\* PriorityQueue._get: heapq.heappop, as << item, heap after the pop >>
heappop(ts, heap) ==
    LET lastelt == heap[Len(heap)]
        rest == SubSeq(heap, 1, Len(heap) - 1)
    IN  IF rest = << >>
        THEN << lastelt, rest >>
        ELSE << rest[1], siftup_loop(ts, [rest EXCEPT ![1] = lastelt], 0, 0, lastelt) >>

(***************************************************************************)
(* Event and EventBus.publish                                              *)
(***************************************************************************)
\* Event(type=..., source=..., data=...); uid stands for the identity of the object
Event(type, source, data) == [type |-> type, source |-> source, data |-> data, uid |-> 0]

\* the data of the queue manager's events: task_id, result, metrics.retry_count
TaskData(task_id, result, retry_count) ==
    [task_id |-> task_id, result |-> result, retry_count |-> retry_count]

\* publish_error_event(error) as called by the wrapper of with_error_handling around
\* a method of the queue manager that raises: the error.occurred event
error_occurred(message) ==
    Event("error.occurred", "error_handler", [task_id |-> NoTask, message |-> message])

\* a publish that loses the task_retry events
emit_without_retry(pub, event) ==
    LET k == event.data.task_id
        old == IF k \in DOMAIN pub THEN pub[k] ELSE << >>
    IN  [i \in DOMAIN pub \cup {k} |->
            IF i = k /\ event.type # "queue_manager.task_retry"
            THEN Append(old, event)
            ELSE IF i = k THEN old ELSE pub[i]]

\* event_bus.publish(Event(...)) as called by the queue manager. The manager's events
\* are kept per task (key NoTask: the manager's own events): the order between the
\* events of two different tasks is not recorded.
emit(pub, event) ==
    LET k == event.data.task_id
        old == IF k \in DOMAIN pub THEN pub[k] ELSE << >>
    IN  [i \in DOMAIN pub \cup {k} |-> IF i = k THEN Append(old, event) ELSE pub[i]]

(***************************************************************************)
(* RateLimiter.acquire(model, tokens): the counters it leaves behind.      *)
(* The wait for the window reset is a sleep followed by _reset_window.     *)
(***************************************************************************)
RateLimitWindow == [requests |-> 0, tokens |-> 0]

\* a limiter that lets every call through without counting it
acquire_free(ws, model, tokens) == ws

acquire(ws, model, tokens) ==
    LET w0 == IF model \in DOMAIN ws THEN ws[model] ELSE RateLimitWindow
        w1 == IF w0.requests >= RATE_LIMIT_REQUESTS THEN RateLimitWindow ELSE w0
        w2 == IF w1.tokens + tokens > RATE_LIMIT_TOKENS THEN RateLimitWindow ELSE w1
        w3 == [requests |-> w2.requests + 1, tokens |-> w2.tokens + tokens]
    IN  [k \in DOMAIN ws \cup {model} |-> IF k = model THEN w3 ELSE ws[k]]

(***************************************************************************)
(* QueueManager                                                            *)
(***************************************************************************)
\* a worker coroutine: "new" (created by start(), not run yet), "get" (suspended in
\* queue.get()), "handler" (in the handler call), "sleep" (in the backoff sleep, of
\* delay seconds), "done"
Worker == [pc |-> "new", task |-> NoTask, cancel |-> FALSE, delay |-> 0]

\* The kinds of failure of spec section 4.4 and its retry allow-list. The code has
\* no such list: a handler's exception is caught as a plain Exception.
RetryableKinds == {"RATE_LIMIT", "API", "NETWORK"}

\* Task(type=..., data=..., priority=..., correlation_id=..., max_retries=...)
Task(task_type, data, priority, correlation_id, max_retries, now) ==
    [type |-> task_type, priority |-> priority, data |-> data, status |-> PENDING,
     correlation_id |-> correlation_id,
     max_retries |-> max_retries, retry_delay |-> 1,
     created_at |-> now, started_at |-> None,
     completed_at |-> None, error |-> "",
     metrics |-> [retry_count |-> 0, error_count |-> 0]]

\* an enqueue_task without the test of self._running
rejects_never(is_running) == FALSE

\* enqueue_task lines 172-176: "if not self._running: raise QueueProcessingError"
rejects(is_running) == ~is_running

\* a correlation index that keeps the last task of a group only
track_latest(ct, correlation_id, id) ==
    IF correlation_id \in {None, ""}
    THEN ct
    ELSE [k \in DOMAIN ct \cup {correlation_id} |->
             IF k = correlation_id THEN << id >> ELSE ct[k]]

\* enqueue_task lines 191-194: "if correlation_id:" (neither None nor "") the id of
\* the task is appended to the list of its correlation id
track(ct, correlation_id, id) ==
    IF correlation_id \in {None, ""}
    THEN ct
    ELSE LET old == IF correlation_id \in DOMAIN ct THEN ct[correlation_id] ELSE << >>
         IN  [k \in DOMAIN ct \cup {correlation_id} |->
                 IF k = correlation_id THEN Append(old, id) ELSE ct[k]]

\* a TaskResult that drops the handler's value
TaskResult_no_data(success, data) == [success |-> success, data |-> NoResult]

\* TaskResult(success=True, data=result)
TaskResult(success, data) == [success |-> success, data |-> data]

\* list.remove(x): drops the first occurrence
Remove(s, x) ==
    IF \E i \in 1..Len(s) : s[i] = x
    THEN LET i == CHOOSE j \in 1..Len(s) : s[j] = x /\ \A k \in 1..(j - 1) : s[k] # x
         IN  SubSeq(s, 1, i - 1) \o SubSeq(s, i + 1, Len(s))
    ELSE s

\* the manager's state as one record, so that a step can be computed as the code
\* runs it: statement after statement up to the next suspension
Q == [tasks |-> tasks, queue |-> queue, unfinished_tasks |-> unfinished_tasks,
      running_tasks |-> running_tasks, workers |-> workers, metrics |-> metrics,
      published |-> published, attempts |-> attempts, last_get |-> << >>,
      windows |-> windows]

SetQ(st) ==
    /\ tasks' = st.tasks
    /\ queue' = st.queue
    /\ unfinished_tasks' = st.unfinished_tasks
    /\ running_tasks' = st.running_tasks
    /\ workers' = st.workers
    /\ metrics' = st.metrics
    /\ published' = st.published
    /\ attempts' = st.attempts
    /\ last_get' = st.last_get
    /\ windows' = st.windows

\* a retry whatever the count
should_retry_always(task) == TRUE

\* the retry test off by one
should_retry_inclusive(task) == task.metrics.retry_count <= task.max_retries

\* _process_tasks line 327: "if task.metrics.retry_count < task.max_retries"
should_retry(task) == task.metrics.retry_count < task.max_retries

\* _process_tasks, the finally clause (lines 365-369)
finally(st, w, t) ==
    [st EXCEPT !.tasks[t].completed_at = ATime,
               !.running_tasks = Remove(@, t),
               !.unfinished_tasks = @ - 1,
               !.workers[w].task = NoTask]

\* a worker that runs what it dequeues whatever its status
skipped_never(task) == FALSE

\* _process_tasks line 279: "if task.status == TaskStatus.CANCELLED"
skipped(task) == task.status = CANCELLED

\* _process_tasks line 334: the argument of asyncio.sleep,
\* "task.retry_delay * (2 ** task.metrics.retry_count)"
backoff(task) == task.retry_delay * 2^task.metrics.retry_count

RECURSIVE process_tasks(_, _)
RECURSIVE on_exception(_, _, _, _)
RECURSIVE got_task(_, _)

\* _process_tasks from the top of "while self._running" to the next suspension
process_tasks(st, w) ==
    IF ~running
    THEN [st EXCEPT !.workers[w].pc = "done"]
    ELSE IF st.queue = << >>
         THEN [st EXCEPT !.workers[w].pc = "get"]
         ELSE got_task(st, w)

\* a retry that puts the task back into the queue before the backoff sleep
on_exception_put_first(st, w, t, err) ==
    IF should_retry(st.tasks[t])
    THEN [st EXCEPT !.tasks[t].status = RETRY,
                    !.tasks[t].metrics.retry_count = @ + 1,
                    !.metrics.retry_count = @ + 1,
                    !.queue = heappush(st.tasks, @, t),
                    !.unfinished_tasks = @ + 1,
                    !.workers[w].pc = "sleep",
                    !.workers[w].task = t]
    ELSE process_tasks(
             finally([st EXCEPT !.tasks[t].status = FAILED,
                                !.tasks[t].error = err,
                                !.metrics.failed_tasks = @ + 1],
                     w, t),
             w)

\* a retry that is not counted in the metrics of the manager
on_exception_uncounted(st, w, t, err) ==
    IF should_retry(st.tasks[t])
    THEN [st EXCEPT !.tasks[t].status = RETRY,
                    !.tasks[t].metrics.retry_count = @ + 1,
                    !.workers[w].pc = "sleep",
                    !.workers[w].task = t]
    ELSE process_tasks(
             finally([st EXCEPT !.tasks[t].status = FAILED,
                                !.tasks[t].error = err,
                                !.metrics.failed_tasks = @ + 1],
                     w, t),
             w)

\* _process_tasks, "except Exception as e" (lines 326-363): the retry up to its
\* backoff sleep, or the terminal failure, the finally clause and the next iteration
on_exception(st, w, t, err) ==
    IF should_retry(st.tasks[t])
    THEN [st EXCEPT !.tasks[t].status = RETRY,
                    !.tasks[t].metrics.retry_count = @ + 1,
                    !.metrics.retry_count = @ + 1,
                    !.workers[w].pc = "sleep",
                    !.workers[w].task = t,
                    !.workers[w].delay =
                        backoff([st.tasks[t] EXCEPT !.metrics.retry_count = @ + 1])]
    ELSE process_tasks(
             finally([st EXCEPT !.tasks[t].status = FAILED,
                                !.tasks[t].error = err,
                                !.metrics.failed_tasks = @ + 1,
                                !.published = emit(@, Event("queue_manager.task_failed",
                                    "queue_manager",
                                    TaskData(t, NoResult, st.tasks[t].metrics.retry_count)))],
                     w, t),
             w)

\* _process_tasks from "task = await self.queue.get()" returning a task (lines 277-301)
\* and _execute_task up to the handler call (lines 213-235): the rate limiter, the
\* handler lookup and its QueueProcessingError (lines 225-230, 255-260)
got_task(st, w) ==
    LET got == heappop(st.tasks, st.queue)
        t == got[1]
        s0 == [st EXCEPT !.queue = got[2],
                         !.last_get = Append(@, [task |-> t, waiting |-> got[2]])]
    IN  IF skipped(st.tasks[t])
        THEN process_tasks([s0 EXCEPT !.unfinished_tasks = @ - 1], w)
        ELSE LET s1 == [s0 EXCEPT
                           !.tasks[t].status = RUNNING,
                           !.tasks[t].started_at = ATime,
                           !.running_tasks = Append(@, t),
                           !.published = emit(@, Event("queue_manager.task_started",
                               "queue_manager", TaskData(t, NoResult, 0))),
                           !.windows = acquire(@, st.tasks[t].type, 1)]
             IN  IF st.tasks[t].type \in task_handlers
                 THEN [s1 EXCEPT !.workers[w].pc = "handler", !.workers[w].task = t]
                 ELSE on_exception(
                          [s1 EXCEPT !.tasks[t].metrics.error_count = @ + 1,
                                     !.attempts[t] = Append(@, [outcome |-> "nohandler",
                                                                value |-> NoResult])],
                          w, t, "QUEUE_PROCESSING")

\* error_handler.handle_error(error), awaited by the worker (lines 375-381): the
\* failure is logged and made observable as an error.occurred event, and the call
\* returns
handle_error(pub, message) == emit(pub, error_occurred(message))

\* a worker whose loop ends on an unexpected exception
outer_except_break(st, w) == [st EXCEPT !.workers[w].pc = "done"]

\* _process_tasks, "except Exception as e" of the loop body (lines 373-382): the
\* error is logged and handled, "continue" goes to the next iteration
outer_except(st, w) ==
    process_tasks([st EXCEPT !.published = handle_error(@, "Task processor error")], w)

\* A worker resumes from queue.get() with a task and a statement of the loop body
\* outside the inner try (lines 279-287) raises an unexpected exception: before the
\* status is set (where = "status") or after started_at is (where = "queue_time").
\* Neither the finally clause nor task_done() is reached.
loop_body_raises(w, where) ==
    /\ workers[w].pc = "get"
    /\ ~workers[w].cancel
    /\ queue # << >>
    /\ LET got == heappop(tasks, queue)
           t == got[1]
           s0 == [Q EXCEPT !.queue = got[2],
                           !.last_get = Append(@, [task |-> t, waiting |-> got[2]])]
           s1 == IF where = "status"
                 THEN s0
                 ELSE [s0 EXCEPT !.tasks[t].status = RUNNING,
                                 !.tasks[t].started_at = ATime]
       IN  /\ ~skipped(tasks[t])
           /\ SetQ(outer_except(s1, w))
    /\ UNCHANGED << running, stop_pc, clock, correlated_tasks >>
    /\ UNCHANGED << bus_vars, limiter_vars, wrapper_vars >>

\* QueueManager.start
start ==
    /\ running' = TRUE
    /\ workers' = workers \o [i \in 1..max_concurrent_tasks |-> Worker]
    /\ published' = emit(published, Event("queue_manager.started", "queue_manager",
                                          TaskData(NoTask, NoResult, 0)))
    /\ last_get' = << >>
    /\ UNCHANGED << tasks, queue, unfinished_tasks, running_tasks, metrics, stop_pc, clock,
                    attempts, windows, correlated_tasks >>
    /\ UNCHANGED << bus_vars, limiter_vars, wrapper_vars >>

\* QueueManager.enqueue_task. tick: whether datetime.now() has advanced since it was
\* read last (the program reads the clock and never sets it). On a manager that is
\* not running the QueueProcessingError of line 173 goes through the wrapper of
\* with_error_handling (MEDIUM: error.occurred is published, the error raised).
enqueue_task(task_type, data, priority, correlation_id, max_retries, tick) ==
    /\ IF rejects(running)
       THEN /\ published' = emit(published, error_occurred("Cannot enqueue task"))
            /\ UNCHANGED << tasks, queue, unfinished_tasks, attempts, clock,
                            correlated_tasks >>
       ELSE LET now == clock + tick
                task == Task(task_type, data, priority, correlation_id, max_retries, now)
                id == Len(tasks) + 1
                ts == Append(tasks, task)
            IN  /\ clock' = now
                /\ tasks' = ts
                /\ correlated_tasks' = track(correlated_tasks, correlation_id, id)
                /\ queue' = heappush(ts, queue, id)
                /\ unfinished_tasks' = unfinished_tasks + 1
                /\ attempts' = Append(attempts, << >>)
                /\ published' = emit(published, Event("queue_manager.task_queued",
                                     "queue_manager", TaskData(id, NoResult, 0)))
    /\ last_get' = << >>
    /\ UNCHANGED << running_tasks, running, workers, metrics, stop_pc, windows >>
    /\ UNCHANGED << bus_vars, limiter_vars, wrapper_vars >>

\* a worker created by start() runs for the first time
process_tasks_begin(w) ==
    /\ workers[w].pc = "new"
    /\ SetQ(process_tasks(Q, w))
    /\ UNCHANGED << running, stop_pc, clock, correlated_tasks >>
    /\ UNCHANGED << bus_vars, limiter_vars, wrapper_vars >>

\* a worker suspended in queue.get() resumes with a task
process_tasks_get(w) ==
    /\ workers[w].pc = "get"
    /\ ~workers[w].cancel
    /\ queue # << >>
    /\ SetQ(got_task(Q, w))
    /\ UNCHANGED << running, stop_pc, clock, correlated_tasks >>
    /\ UNCHANGED << bus_vars, limiter_vars, wrapper_vars >>

\* the handler returns r: _execute_task lines 236-241, _process_tasks lines 303-324,
\* the finally clause and the next iteration
handler_returns(w, r) ==
    /\ workers[w].pc = "handler"
    /\ LET t == workers[w].task
           result == TaskResult(TRUE, r)
           s1 == [Q EXCEPT !.attempts[t] = Append(@, [outcome |-> "ok", value |-> r])]
           s2 == IF result.success
                 THEN [s1 EXCEPT
                          !.tasks[t].status = COMPLETED,
                          !.metrics.processed_tasks = @ + 1,
                          !.published = emit(@, Event("queue_manager.task_completed",
                              "queue_manager",
                              TaskData(t, result.data, tasks[t].metrics.retry_count)))]
                 ELSE s1
       IN  SetQ(process_tasks(finally(s2, w, t), w))
    /\ UNCHANGED << running, stop_pc, clock, correlated_tasks >>
    /\ UNCHANGED << bus_vars, limiter_vars, wrapper_vars >>

\* the handler raises an exception of kind `kind`: _execute_task lines 255-269, then
\* _process_tasks lines 326-363
handler_raises(w, kind) ==
    /\ workers[w].pc = "handler"
    /\ LET t == workers[w].task
           s1 == [Q EXCEPT !.attempts[t] = Append(@, [outcome |-> kind, value |-> NoResult]),
                           !.tasks[t].metrics.error_count = @ + 1]
       IN  SetQ(on_exception(s1, w, t, kind))
    /\ UNCHANGED << running, stop_pc, clock, correlated_tasks >>
    /\ UNCHANGED << bus_vars, limiter_vars, wrapper_vars >>

\* a timeout that lets the handler run on and takes its result
handler_times_out_late(w) ==
    /\ workers[w].pc = "handler"
    /\ LET t == workers[w].task
           s1 == [Q EXCEPT !.attempts[t] = Append(@, [outcome |-> "timeout",
                                                      value |-> NoResult]),
                           !.tasks[t].status = COMPLETED,
                           !.metrics.processed_tasks = @ + 1]
       IN  SetQ(process_tasks(finally(s1, w, t), w))
    /\ UNCHANGED << running, stop_pc, clock, correlated_tasks >>
    /\ UNCHANGED << bus_vars, limiter_vars, wrapper_vars >>

\* task.timeout elapses while the worker is suspended in the handler call: the
\* handler is cancelled, asyncio.timeout turns the cancellation into TimeoutError
\* (line 233), _execute_task raises QueueProcessingError from its except clause
\* (lines 243-253, error_count is not touched), then _process_tasks lines 326-363
handler_times_out(w) ==
    /\ workers[w].pc = "handler"
    /\ LET t == workers[w].task
           s1 == [Q EXCEPT !.attempts[t] = Append(@, [outcome |-> "timeout",
                                                      value |-> NoResult])]
       IN  SetQ(on_exception(s1, w, t, "QUEUE_PROCESSING"))
    /\ UNCHANGED << running, stop_pc, clock, correlated_tasks >>
    /\ UNCHANGED << bus_vars, limiter_vars, wrapper_vars >>

\* a worker that does not put the task back when the backoff sleep is over
process_tasks_forgets(w) ==
    /\ workers[w].pc = "sleep"
    /\ LET t == workers[w].task
           s1 == [Q EXCEPT !.workers[w].delay = 0]
       IN  SetQ(process_tasks(finally(s1, w, t), w))
    /\ UNCHANGED << running, stop_pc, clock, correlated_tasks >>
    /\ UNCHANGED << bus_vars, limiter_vars, wrapper_vars >>

\* the backoff sleep is over: _process_tasks lines 335-346, the finally clause and
\* the next iteration
process_tasks_requeue(w) ==
    /\ workers[w].pc = "sleep"
    /\ LET t == workers[w].task
           s1 == [Q EXCEPT
                     !.workers[w].delay = 0,
                     !.queue = heappush(tasks, @, t),
                     !.unfinished_tasks = @ + 1,
                     !.published = emit(@, Event("queue_manager.task_retry", "queue_manager",
                         TaskData(t, NoResult, tasks[t].metrics.retry_count)))]
       IN  SetQ(process_tasks(finally(s1, w, t), w))
    /\ UNCHANGED << running, stop_pc, clock, correlated_tasks >>
    /\ UNCHANGED << bus_vars, limiter_vars, wrapper_vars >>

\* worker.cancel() reaches a worker: one suspended in queue.get() gets the
\* CancelledError and breaks (lines 371-372), one that never ran is cancelled as it is
process_tasks_cancelled(w) ==
    /\ workers[w].pc \in {"get", "new"}
    /\ workers[w].cancel
    /\ workers' = [workers EXCEPT ![w].pc = "done"]
    /\ last_get' = << >>
    /\ UNCHANGED << tasks, queue, unfinished_tasks, running_tasks, running, metrics, stop_pc,
                    clock, published, attempts, windows, correlated_tasks >>
    /\ UNCHANGED << bus_vars, limiter_vars, wrapper_vars >>

\* The owner of a task sets its status to CANCELLED while the task waits for its
\* first attempt. QueueManager has no method that does it; its workers skip a task
\* they find CANCELLED (lines 279-281).
set_cancelled(t) ==
    /\ tasks[t].status = PENDING
    /\ tasks' = [tasks EXCEPT ![t].status = CANCELLED]
    /\ last_get' = << >>
    /\ UNCHANGED << queue, unfinished_tasks, running_tasks, running, workers, metrics,
                    stop_pc, clock, published, attempts, windows, correlated_tasks >>
    /\ UNCHANGED << bus_vars, limiter_vars, wrapper_vars >>

\* stop(): "for worker in self._workers: worker.cancel()"
cancel_all(ws) == [i \in DOMAIN ws |-> [ws[i] EXCEPT !.cancel = (ws[i].pc # "done")]]

\* a stop() that refuses to run on a manager that is not running
stop_allowed_when_running(is_running) == is_running

\* stop() lines 136-138: no test of self._running, any call goes on
stop_allowed(is_running) == TRUE

\* QueueManager.stop up to its first suspension: queue.join() suspends while
\* _unfinished_tasks > 0, otherwise the workers are cancelled and gather() awaited;
\* gather() of no worker at all is done at once, and stop() clears the list,
\* publishes queue_manager.stopped and returns. An exception would go through the
\* except clause (lines 156-161) and the wrapper of with_error_handling.
stop_call ==
    /\ stop_pc \in {"idle", "returned"}
    /\ IF ~stop_allowed(running)
       THEN /\ published' = emit(published, error_occurred("Failed to stop queue manager"))
            /\ UNCHANGED << running, stop_pc, workers >>
       ELSE /\ running' = FALSE
            /\ IF unfinished_tasks > 0
               THEN stop_pc' = "join" /\ UNCHANGED << workers, published >>
               ELSE IF workers = << >>
                    THEN /\ stop_pc' = "returned"
                         /\ published' = emit(published, Event("queue_manager.stopped",
                                              "queue_manager", TaskData(NoTask, NoResult, 0)))
                         /\ UNCHANGED workers
                    ELSE /\ stop_pc' = "gather"
                         /\ workers' = cancel_all(workers)
                         /\ UNCHANGED published
    /\ last_get' = << >>
    /\ UNCHANGED << tasks, queue, unfinished_tasks, running_tasks, metrics, clock,
                    attempts, windows, correlated_tasks >>
    /\ UNCHANGED << bus_vars, limiter_vars, wrapper_vars >>

\* queue.join() returns: the workers are cancelled, gather() awaited
stop_joined ==
    /\ stop_pc = "join"
    /\ unfinished_tasks = 0
    /\ stop_pc' = "gather"
    /\ workers' = cancel_all(workers)
    /\ last_get' = << >>
    /\ UNCHANGED << tasks, queue, unfinished_tasks, running_tasks, running, metrics, clock,
                    published, attempts, windows, correlated_tasks >>
    /\ UNCHANGED << bus_vars, limiter_vars, wrapper_vars >>

\* gather() returns: every worker task has finished; stop() clears the list,
\* publishes queue_manager.stopped and returns
stop_return ==
    /\ stop_pc = "gather"
    /\ \A i \in DOMAIN workers : workers[i].pc = "done"
    /\ stop_pc' = "returned"
    /\ workers' = << >>
    /\ published' = emit(published, Event("queue_manager.stopped", "queue_manager",
                                          TaskData(NoTask, NoResult, 0)))
    /\ last_get' = << >>
    /\ UNCHANGED << tasks, queue, unfinished_tasks, running_tasks, running, metrics, clock,
                    attempts, windows, correlated_tasks >>
    /\ UNCHANGED << bus_vars, limiter_vars, wrapper_vars >>

(***************************************************************************)
(* EventBus                                                                *)
(***************************************************************************)
NoEvent == [type |-> "", source |-> "", data |-> NoResult, uid |-> 0]

\* a _process_events coroutine: "new" (created by start(), not run yet), "get"
\* (suspended in _queue.get()), "callback" (in a subscriber's call), "done"
Consumer ==
    [pc |-> "new", event |-> NoEvent, callback |-> "", pending |-> << >>, cancel |-> FALSE]

\* the bus's state as one record (see Q)
B == [queue |-> bus_queue, unfinished |-> bus_unfinished, consumers |-> consumers,
      dispatched |-> dispatched, delivered |-> delivered]

SetB(st) ==
    /\ bus_queue' = st.queue
    /\ bus_unfinished' = st.unfinished
    /\ consumers' = st.consumers
    /\ dispatched' = st.dispatched
    /\ delivered' = st.delivered

\* a queue that hands out its newest item first
pop_newest(q) == << Last(q), SubSeq(q, 1, Len(q) - 1) >>

\* asyncio.Queue._get: collections.deque.popleft, as << item, queue after it >>
popleft(q) == << Head(q), Tail(q) >>

\* a dispatch that gives up on the first callback that raises
remaining_until_raise(pending, outcome) == IF outcome = "raise" THEN << >> ELSE pending

\* _process_events lines 86-90: the callbacks still to call after one has returned
\* or raised; the exception of a callback is caught and logged
remaining(pending, outcome) == pending

\* "await callback(event)" begins: the callback is invoked with the event
invoke(st, c, event, callbacks) ==
    [st EXCEPT !.delivered = Append(@, [callback |-> Head(callbacks), event |-> event]),
               !.consumers[c].pc = "callback",
               !.consumers[c].event = event,
               !.consumers[c].callback = Head(callbacks),
               !.consumers[c].pending = Tail(callbacks)]

RECURSIVE process_events(_, _)
RECURSIVE got_event(_, _)

\* _process_events from the top of "while self._running" to the next suspension
process_events(st, c) ==
    IF ~bus_running
    THEN [st EXCEPT !.consumers[c].pc = "done"]
    ELSE IF st.queue = << >>
         THEN [st EXCEPT !.consumers[c].pc = "get"]
         ELSE got_event(st, c)

\* _process_events from "event = await self._queue.get()" returning an event
\* (lines 83-92): the copy of the subscriber list, the first callback's call, or
\* task_done() and the next iteration when there is nothing to call
got_event(st, c) ==
    LET got == popleft(st.queue)
        event == got[1]
        copy == IF event.type \in DOMAIN subscribers THEN subscribers[event.type] ELSE << >>
        s0 == [st EXCEPT !.queue = got[2],
                         !.dispatched = [i \in DOMAIN @ \cup {event.uid} |->
                                            IF i = event.uid THEN copy ELSE @[i]]]
    IN  IF copy # << >>
        THEN invoke(s0, c, event, copy)
        ELSE process_events([s0 EXCEPT !.unfinished = @ - 1,
                                       !.consumers[c].event = NoEvent], c)

\* EventBus.start
bus_start ==
    /\ bus_running' = TRUE
    /\ consumers' = Append(consumers, Consumer)
    /\ bus_task' = Len(consumers) + 1
    /\ UNCHANGED << subscribers, event_history, bus_queue, bus_unfinished, bus_stop_pc,
                    bus_stop_mark, dispatched, delivered >>
    /\ UNCHANGED << queue_vars, limiter_vars, wrapper_vars >>

\* EventBus.publish(event) with an Event; uid stands for the identity of the object
publish(event) ==
    /\ LET e == [event EXCEPT !.uid = Len(event_history) + 1]
       IN  /\ event_history' = Append(event_history, e)
           /\ bus_queue' = Append(bus_queue, e)
           /\ bus_unfinished' = bus_unfinished + 1
    /\ UNCHANGED << subscribers, bus_running, consumers, bus_task, bus_stop_pc, bus_stop_mark,
                    dispatched, delivered >>
    /\ UNCHANGED << queue_vars, limiter_vars, wrapper_vars >>

\* a subscribe without the test "callback not in self.subscribers[event_type]"
subscribe_again(event_type, callback) ==
    /\ LET old == IF event_type \in DOMAIN subscribers THEN subscribers[event_type] ELSE << >>
       IN  subscribers' = [k \in DOMAIN subscribers \cup {event_type} |->
                              IF k = event_type THEN Append(old, callback) ELSE subscribers[k]]
    /\ UNCHANGED << event_history, bus_queue, bus_unfinished, bus_running, consumers, bus_task,
                    bus_stop_pc, bus_stop_mark, dispatched, delivered >>
    /\ UNCHANGED << queue_vars, limiter_vars, wrapper_vars >>

\* a subscribe that puts the new callback in front of the others
subscribe_first(event_type, callback) ==
    /\ LET old == IF event_type \in DOMAIN subscribers THEN subscribers[event_type] ELSE << >>
           new == IF \E i \in 1..Len(old) : old[i] = callback
                  THEN old
                  ELSE << callback >> \o old
       IN  subscribers' = [k \in DOMAIN subscribers \cup {event_type} |->
                              IF k = event_type THEN new ELSE subscribers[k]]
    /\ UNCHANGED << event_history, bus_queue, bus_unfinished, bus_running, consumers, bus_task,
                    bus_stop_pc, bus_stop_mark, dispatched, delivered >>
    /\ UNCHANGED << queue_vars, limiter_vars, wrapper_vars >>

\* EventBus.subscribe
subscribe(event_type, callback) ==
    /\ LET subs0 == IF event_type \in DOMAIN subscribers
                    THEN subscribers
                    ELSE [k \in DOMAIN subscribers \cup {event_type} |->
                             IF k = event_type THEN << >> ELSE subscribers[k]]
       IN  subscribers' =
               IF \E i \in 1..Len(subs0[event_type]) : subs0[event_type][i] = callback
               THEN subs0
               ELSE [subs0 EXCEPT ![event_type] = Append(@, callback)]
    /\ UNCHANGED << event_history, bus_queue, bus_unfinished, bus_running, consumers, bus_task,
                    bus_stop_pc, bus_stop_mark, dispatched, delivered >>
    /\ UNCHANGED << queue_vars, limiter_vars, wrapper_vars >>

\* EventBus.unsubscribe
unsubscribe(event_type, callback) ==
    /\ subscribers' =
           IF /\ event_type \in DOMAIN subscribers
              /\ \E i \in 1..Len(subscribers[event_type]) : subscribers[event_type][i] = callback
           THEN [subscribers EXCEPT ![event_type] = Remove(@, callback)]
           ELSE subscribers
    /\ UNCHANGED << event_history, bus_queue, bus_unfinished, bus_running, consumers, bus_task,
                    bus_stop_pc, bus_stop_mark, dispatched, delivered >>
    /\ UNCHANGED << queue_vars, limiter_vars, wrapper_vars >>

\* a consumer created by start() runs for the first time
process_events_begin(c) ==
    /\ consumers[c].pc = "new"
    /\ ~consumers[c].cancel
    /\ SetB(process_events(B, c))
    /\ UNCHANGED << subscribers, event_history, bus_running, bus_task, bus_stop_pc,
                    bus_stop_mark >>
    /\ UNCHANGED << queue_vars, limiter_vars, wrapper_vars >>

\* a consumer suspended in _queue.get() resumes with an event
process_events_get(c) ==
    /\ consumers[c].pc = "get"
    /\ ~consumers[c].cancel
    /\ bus_queue # << >>
    /\ SetB(got_event(B, c))
    /\ UNCHANGED << subscribers, event_history, bus_running, bus_task, bus_stop_pc,
                    bus_stop_mark >>
    /\ UNCHANGED << queue_vars, limiter_vars, wrapper_vars >>

\* a dispatch without the try around the call of a callback
caught_by_loop(outcome) == outcome # "raise"

\* lines 87-90: "try: await callback(event) / except Exception" catches what a
\* callback raises
caught(outcome) == TRUE

\* the consumer has no event in hand
idle(st, c) ==
    [st EXCEPT !.consumers[c].event = NoEvent,
               !.consumers[c].callback = "",
               !.consumers[c].pending = << >>]

\* _process_events from the end of a callback's call (lines 86-98): the next
\* callback of the copy is called, or task_done() and the next iteration; an
\* exception that leaves the for loop is logged by the loop's own except clause,
\* which goes on with the next iteration (lines 96-98)
end_of_callback(st, c, outcome) ==
    IF ~caught(outcome)
    THEN process_events(idle(st, c), c)
    ELSE LET rest == remaining(st.consumers[c].pending, outcome)
         IN  IF rest # << >>
             THEN invoke(st, c, st.consumers[c].event, rest)
             ELSE process_events(idle([st EXCEPT !.unfinished = @ - 1], c), c)

\* a callback returns or raises
callback_done(c, outcome) ==
    /\ consumers[c].pc = "callback"
    /\ SetB(end_of_callback(B, c, outcome))
    /\ UNCHANGED << subscribers, event_history, bus_running, bus_task, bus_stop_pc,
                    bus_stop_mark >>
    /\ UNCHANGED << queue_vars, limiter_vars, wrapper_vars >>

\* publish_error_event(error): the error.occurred event; cause is the uid of the
\* event whose handler failed, NoEvent.uid for a failure elsewhere in the program
ErrorEvent(cause) == Event("error.occurred", "error_handler", cause)

\* A callback decorated with with_error_handling fails: the wrapper publishes
\* error.occurred (error_handler.py lines 89-105; its retries of the function, which
\* fails again, publish nothing) and raises the error (lines 119-129), which the bus
\* catches like any exception of a callback.
callback_fails_in_wrapper(c) ==
    /\ consumers[c].pc = "callback"
    /\ LET e == [ErrorEvent(consumers[c].event.uid) EXCEPT !.uid = Len(event_history) + 1]
           s0 == [B EXCEPT !.queue = Append(@, e), !.unfinished = @ + 1]
       IN  /\ event_history' = Append(event_history, e)
           /\ SetB(end_of_callback(s0, c, "raise"))
    /\ UNCHANGED << subscribers, bus_running, bus_task, bus_stop_pc, bus_stop_mark >>
    /\ UNCHANGED << queue_vars, limiter_vars, wrapper_vars >>

\* self._task.cancel() reaches the consumer: suspended in _queue.get() it gets the
\* CancelledError and breaks (lines 94-95); one that never ran is cancelled as it is
process_events_cancelled(c) ==
    /\ consumers[c].pc \in {"get", "new"}
    /\ consumers[c].cancel
    /\ consumers' = [consumers EXCEPT ![c].pc = "done"]
    /\ UNCHANGED << subscribers, event_history, bus_queue, bus_unfinished, bus_running,
                    bus_task, bus_stop_pc, bus_stop_mark, dispatched, delivered >>
    /\ UNCHANGED << queue_vars, limiter_vars, wrapper_vars >>

\* stop(): "self._task.cancel()"
cancel_task(cs, c) == [cs EXCEPT ![c].cancel = (cs[c].pc # "done")]

\* EventBus.stop up to its first suspension: without a task it returns; _queue.join()
\* suspends while _unfinished_tasks > 0; otherwise the task is cancelled and awaited
bus_stop_call ==
    /\ bus_stop_pc = "idle"
    /\ bus_running' = FALSE
    /\ bus_stop_mark' = Len(event_history)
    /\ IF bus_task = 0
       THEN bus_stop_pc' = "returned" /\ UNCHANGED consumers
       ELSE IF bus_unfinished > 0
            THEN bus_stop_pc' = "join" /\ UNCHANGED consumers
            ELSE bus_stop_pc' = "await" /\ consumers' = cancel_task(consumers, bus_task)
    /\ UNCHANGED << subscribers, event_history, bus_queue, bus_unfinished, bus_task,
                    dispatched, delivered >>
    /\ UNCHANGED << queue_vars, limiter_vars, wrapper_vars >>

\* _queue.join() returns: the task is cancelled and awaited
bus_stop_joined ==
    /\ bus_stop_pc = "join"
    /\ bus_unfinished = 0
    /\ bus_stop_pc' = "await"
    /\ consumers' = cancel_task(consumers, bus_task)
    /\ UNCHANGED << subscribers, event_history, bus_queue, bus_unfinished, bus_running,
                    bus_task, bus_stop_mark, dispatched, delivered >>
    /\ UNCHANGED << queue_vars, limiter_vars, wrapper_vars >>

\* "await self._task" returns (or raises the CancelledError that stop() swallows)
bus_stop_return ==
    /\ bus_stop_pc = "await"
    /\ consumers[bus_task].pc = "done"
    /\ bus_stop_pc' = "returned"
    /\ UNCHANGED << subscribers, event_history, bus_queue, bus_unfinished, bus_running,
                    consumers, bus_task, bus_stop_mark, dispatched, delivered >>
    /\ UNCHANGED << queue_vars, limiter_vars, wrapper_vars >>

(***************************************************************************)
(* RateLimiter with time: acquire() as the coroutine it is, with its two   *)
(* sleeps, against a wall clock that advances between the steps.           *)
(***************************************************************************)
\* RateLimiter(requests_per_minute=2, tokens_per_minute=3): the instance under study
requests_per_minute == 2
tokens_per_minute == 3

\* "60 - ..." and timedelta(minutes=1): the length of a window in seconds
WINDOW_SECONDS == 60

\* the window period in clock units
Period == WINDOW_SECONDS * Resolution

\* RateLimitWindow() created when datetime.now() is `now`
RateLimitWindowAt(now) == [requests |-> 0, tokens |-> 0, start_time |-> now]

\* an acquire() call: "sleep_requests" (suspended in the sleep of the request limit),
\* "sleep_tokens" (in the sleep of the token limit), "done" (returned); due is the
\* time the sleep ends, waited_for the start_time of the window found full of requests
NotWaited == -1
Caller(model, tokens) ==
    [pc |-> "call", model |-> model, tokens |-> tokens, due |-> 0, waited_for |-> NotWaited]

\* the limiter's state as one record (see Q)
L == [windows |-> rl_windows, callers |-> rl_callers, grants |-> rl_grants,
      starts |-> rl_starts]

SetL(st) ==
    /\ rl_windows' = st.windows
    /\ rl_callers' = st.callers
    /\ rl_grants' = st.grants
    /\ rl_starts' = st.starts

\* self.windows[model] = RateLimitWindow()
set_window(st, model) ==
    [st EXCEPT !.windows = [k \in DOMAIN @ \cup {model} |->
                               IF k = model THEN RateLimitWindowAt(rl_now) ELSE @[k]],
               !.starts = @ \cup {[model |-> model, start_time |-> rl_now]}]

\* RateLimiter._get_or_create_window
get_or_create_window(st, model) ==
    IF model \notin DOMAIN st.windows THEN set_window(st, model) ELSE st

\* RateLimiter._reset_window
reset_window(st, model) == set_window(st, model)

\* a timedelta.seconds that rounds up
seconds_ceil(delta) == (delta + Resolution - 1) \div Resolution

\* timedelta.seconds of a delta of less than a day: the whole seconds in it
seconds(delta) == delta \div Resolution

\* "wait_time = 60 - (datetime.now() - window.start_time).seconds"
wait_time(window) == WINDOW_SECONDS - seconds(rl_now - window.start_time)

\* asyncio.sleep(wait_time): the caller is suspended until the clock has passed
\* wait_time seconds (sleep(0) suspends for one turn of the loop)
sleep(st, c, pc, wait) ==
    [st EXCEPT !.callers[c].pc = pc,
               !.callers[c].due = rl_now + wait * Resolution]

\* lines 50-52: the counters are updated and acquire() returns
update_counters(st, c) ==
    LET model == st.callers[c].model
        window == [st.windows[model] EXCEPT !.requests = @ + 1,
                                            !.tokens = @ + st.callers[c].tokens]
    IN  [st EXCEPT !.windows[model] = window,
                   !.callers[c].pc = "done",
                   !.grants = Append(@, [caller |-> c, model |-> model, time |-> rl_now,
                                         waited_for |-> st.callers[c].waited_for,
                                         requests |-> window.requests,
                                         tokens |-> window.tokens])]

\* lines 44-52: the token limit
check_tokens(st, c) ==
    LET window == st.windows[st.callers[c].model]
    IN  IF window.tokens + st.callers[c].tokens > tokens_per_minute
        THEN sleep(st, c, "sleep_tokens", wait_time(window))
        ELSE update_counters(st, c)

\* lines 36-52: the request limit
check_requests(st, c) ==
    LET window == st.windows[st.callers[c].model]
    IN  IF window.requests >= requests_per_minute
        THEN sleep([st EXCEPT !.callers[c].waited_for = window.start_time],
                   c, "sleep_requests", wait_time(window))
        ELSE check_tokens(st, c)

\* RateLimiter.acquire(model, tokens) up to its first suspension or its return
acquire_call(model, tokens) ==
    /\ LET c == Len(rl_callers) + 1
           s0 == [L EXCEPT !.callers = Append(@, Caller(model, tokens))]
           s1 == get_or_create_window(s0, model)
           s2 == IF rl_now - s1.windows[model].start_time > Period
                 THEN reset_window(s1, model)
                 ELSE s1
       IN  SetL(check_requests(s2, c))
    /\ UNCHANGED << rl_now, rl_ticks >>
    /\ UNCHANGED << queue_vars, bus_vars, wrapper_vars >>

\* the sleep of the request limit is over (lines 40-52)
acquire_wake_requests(c) ==
    /\ rl_callers[c].pc = "sleep_requests"
    /\ rl_now >= rl_callers[c].due
    /\ SetL(check_tokens(reset_window(L, rl_callers[c].model), c))
    /\ UNCHANGED << rl_now, rl_ticks >>
    /\ UNCHANGED << queue_vars, bus_vars, wrapper_vars >>

\* the sleep of the token limit is over (lines 47-52)
acquire_wake_tokens(c) ==
    /\ rl_callers[c].pc = "sleep_tokens"
    /\ rl_now >= rl_callers[c].due
    /\ SetL(update_counters(reset_window(L, rl_callers[c].model), c))
    /\ UNCHANGED << rl_now, rl_ticks >>
    /\ UNCHANGED << queue_vars, bus_vars, wrapper_vars >>

\* the wall clock advances by d units
clock_advances(d) ==
    /\ rl_now' = rl_now + d
    /\ rl_ticks' = rl_ticks + 1
    /\ UNCHANGED << rl_windows, rl_callers, rl_grants, rl_starts >>
    /\ UNCHANGED << queue_vars, bus_vars, wrapper_vars >>

(***************************************************************************)
(* with_error_handling(category, severity): the wrapper around a decorated *)
(* coroutine function (error_handler.py lines 82-132). The wrapper is      *)
(* suspended in the function ("func") or in the sleep before a retry       *)
(* ("sleep"); it ends "returned" or "raised".                              *)
(***************************************************************************)
\* "last_error = None" (line 87)
NoError == [docsmith |-> FALSE, category |-> None, severity |-> None, message |-> 0]

\* an exception that is not a DocSmithError; message tells the invocation that raised it
PlainError(message) ==
    [docsmith |-> FALSE, category |-> None, severity |-> None, message |-> message]

\* DocSmithError(message=..., category=..., severity=...)
DocSmithError(message, category, severity) ==
    [docsmith |-> TRUE, category |-> category, severity |-> severity, message |-> message]

\* lines 91-99 and 120-127: a DocSmithError is taken as it is, any other exception is
\* wrapped with its message and the decorator's category and severity
as_docsmith(e, category, severity) ==
    IF e.docsmith THEN e ELSE DocSmithError(e.message, category, severity)

\* line 108: "if error.severity in [ErrorSeverity.CRITICAL, ErrorSeverity.HIGH]"
recoverable(error) == error.severity \in {"CRITICAL", "HIGH"}

\* wrapper(*args, **kwargs) up to its first suspension, in func (lines 86-89)
wrapper(category, severity) ==
    [category |-> category, severity |-> severity, pc |-> "func", invocations |-> 1,
     in_loop |-> FALSE, attempt |-> 0, delay |-> 0,
     error |-> NoError, last_error |-> NoError, raised |-> NoError]

\* a wrapper that raises the first error after the retries
after_retries_first(call) ==
    [call EXCEPT !.pc = "raised", !.raised = call.error]

\* lines 118-129: after the loop the last error is raised, as a DocSmithError; without
\* one (no retry was made) the first error is
after_retries(call) ==
    [call EXCEPT !.pc = "raised",
                 !.raised = IF call.last_error # NoError
                            THEN as_docsmith(call.last_error, call.category, call.severity)
                            ELSE call.error]

\* "for attempt in range(MAX_RETRIES)" at the value a of attempt (lines 110-112): the
\* sleep of RETRY_DELAY * (attempt + 1), or the end of the loop
retry_loop(call, a) ==
    IF a < MAX_RETRIES
    THEN [call EXCEPT !.pc = "sleep", !.in_loop = TRUE, !.attempt = a,
                      !.delay = RETRY_DELAY * (a + 1)]
    ELSE after_retries(call)

\* a decorated function is called
wrapper_call(category, severity) ==
    /\ calls' = Append(calls, wrapper(category, severity))
    /\ UNCHANGED << queue_vars, bus_vars, limiter_vars >>

\* "return await func(*args, **kwargs)" (lines 89, 113): the function returns
func_returns(c) ==
    /\ calls[c].pc = "func"
    /\ calls' = [calls EXCEPT ![c].pc = "returned"]
    /\ UNCHANGED << queue_vars, bus_vars, limiter_vars >>

\* the first invocation raises e (lines 90-129): error.occurred is published, then the
\* severity decides between the retry loop and "raise error"
func_raises_first(c, e) ==
    /\ calls[c].pc = "func"
    /\ ~calls[c].in_loop
    /\ LET error == as_docsmith(e, calls[c].category, calls[c].severity)
           call == [calls[c] EXCEPT !.error = error]
           event == [ErrorEvent(NoEvent.uid) EXCEPT !.uid = Len(event_history) + 1]
       IN  /\ calls' = [calls EXCEPT ![c] = IF recoverable(error)
                                             THEN retry_loop(call, 0)
                                             ELSE [call EXCEPT !.pc = "raised",
                                                               !.raised = error]]
           /\ event_history' = Append(event_history, event)
           /\ bus_queue' = Append(bus_queue, event)
           /\ bus_unfinished' = bus_unfinished + 1
    /\ UNCHANGED << subscribers, bus_running, consumers, bus_task, bus_stop_pc, bus_stop_mark,
                    dispatched, delivered >>
    /\ UNCHANGED << queue_vars, limiter_vars >>

\* an invocation of the loop raises e (lines 114-116): "last_error = retry_error;
\* continue"
func_raises_again(c, e) ==
    /\ calls[c].pc = "func"
    /\ calls[c].in_loop
    /\ calls' = [calls EXCEPT ![c] = retry_loop([calls[c] EXCEPT !.last_error = e],
                                                calls[c].attempt + 1)]
    /\ UNCHANGED << queue_vars, bus_vars, limiter_vars >>

\* the sleep is over (lines 112-113): the function is invoked again
wrapper_wakes(c) ==
    /\ calls[c].pc = "sleep"
    /\ calls' = [calls EXCEPT ![c].pc = "func", ![c].invocations = @ + 1]
    /\ UNCHANGED << queue_vars, bus_vars, limiter_vars >>

(***************************************************************************)
(* The state after construction: QueueManager(), EventBus(), RateLimiter() *)
(***************************************************************************)
Init ==
    /\ tasks = << >>
    /\ queue = << >>
    /\ unfinished_tasks = 0
    /\ running_tasks = << >>
    /\ running = FALSE
    /\ workers = << >>
    /\ metrics = [processed_tasks |-> 0, failed_tasks |-> 0, retry_count |-> 0]
    /\ stop_pc = "idle"
    /\ clock = 0
    /\ published = [k \in {NoTask} |-> << >>]
    /\ attempts = << >>
    /\ last_get = << >>
    /\ windows = [k \in {} |-> RateLimitWindow]
    /\ correlated_tasks = [k \in {} |-> << >>]
    /\ subscribers = [k \in {} |-> << >>]
    /\ event_history = << >>
    /\ bus_queue = << >>
    /\ bus_unfinished = 0
    /\ bus_running = FALSE
    /\ consumers = << >>
    /\ bus_task = 0
    /\ bus_stop_pc = "idle"
    /\ bus_stop_mark = 0
    /\ dispatched = << >>
    /\ delivered = << >>
    /\ rl_windows = << >>
    /\ rl_callers = << >>
    /\ rl_now = 0
    /\ rl_ticks = 0
    /\ rl_grants = << >>
    /\ rl_starts = {}
    /\ calls = << >>

(***************************************************************************)
(* The callers of the queue manager and the outcomes of its handlers.      *)
(***************************************************************************)
\* the application starts the manager once
StartOnce ==
    /\ ~running
    /\ workers = << >>
    /\ stop_pc = "idle"
    /\ start

\* at most n calls of enqueue_task on the running manager, with arguments from the
\* given sets and no correlation id
Enqueue(n, types, priorities, retries, ticks) ==
    /\ running
    /\ Len(tasks) < n
    /\ \E ty \in types, p \in priorities, mr \in retries, tick \in ticks :
           enqueue_task(ty, 1, p, None, mr, tick)

\* a step of a worker; the handler returns a value of `results` or raises an
\* exception of a kind of `kinds`
WorkerStep(results, kinds) ==
    \E w \in DOMAIN workers :
        \/ process_tasks_begin(w)
        \/ process_tasks_get(w)
        \/ \E r \in results : handler_returns(w, r)
        \/ \E k \in kinds : handler_raises(w, k)
        \/ process_tasks_requeue(w)

\* the stop() call and what it does to the workers
StopStep ==
    \/ stop_pc = "idle" /\ stop_call
    \/ stop_joined
    \/ stop_return
    \/ \E w \in DOMAIN workers : process_tasks_cancelled(w)

\* Priorities: tasks of the two extreme tiers, every handler may fail once
NextPriority ==
    \/ StartOnce
    \/ Enqueue(MaxTasks, {"echo"}, {CRITICAL, BACKGROUND}, {1}, {1})
    \/ WorkerStep({1}, {"NETWORK"})

SpecPriority == Init /\ [][NextPriority]_vars

\* Dispatch order within a tier: two tiers, a clock that may stand still between
\* two enqueue_task calls
NextOrder ==
    \/ StartOnce
    \/ Enqueue(MaxTasks, {"echo"}, {HIGH, NORMAL}, {1}, {0, 1})
    \/ WorkerStep({1}, {"NETWORK"})

SpecOrder == Init /\ [][NextOrder]_vars

\* Retries: registered handlers that return one of two values or raise a transient
\* error, max_retries 0 (no retry) or MaxRetriesArg
NextRetry ==
    \/ StartOnce
    \/ Enqueue(RetryTasks, {"echo"}, {NORMAL}, {0, MaxRetriesArg}, {1})
    \/ WorkerStep({1, 2}, {"NETWORK"})

SpecRetry == Init /\ [][NextRetry]_vars

\* The whole manager: registered and unregistered types, transient and permanent
\* handler errors, stop()
QueueProgress ==
    \/ WorkerStep({1}, {"NETWORK", "SYSTEM"})
    \/ stop_joined
    \/ stop_return
    \/ \E w \in DOMAIN workers : process_tasks_cancelled(w)

NextQueue ==
    \/ StartOnce
    \/ Enqueue(RetryTasks, {"echo", "unknown"}, {NORMAL}, 0..MaxRetriesArg, {1})
    \/ WorkerStep({1}, {"NETWORK", "SYSTEM"})
    \/ StopStep

SpecQueue == Init /\ [][NextQueue]_vars

(***************************************************************************)
(* Properties of the queue manager                                         *)
(***************************************************************************)
TaskIds == 1..Len(tasks)
Terminal == {COMPLETED, FAILED, CANCELLED}

\* the events of type ty published for task t
EventsOf(t, ty) == SelectSeq(published[t], LAMBDA e : e.type = ty)

Failed(at) == at.outcome # "ok"

\* C1: whenever a worker dequeues a task, no task waiting in the priority queue at
\* that moment has a lower priority value than the task dequeued.
C1_DequeueLowestPriority ==
    \A i \in 1..Len(last_get) :
        \A j \in 1..Len(last_get[i].waiting) :
            tasks[last_get[i].task].priority <= tasks[last_get[i].waiting[j]].priority

\* a task is dequeued while a task enqueued before it, of a higher priority value, waits
C1_Witness ==
    \E i \in 1..Len(last_get) :
        \E j \in 1..Len(last_get[i].waiting) :
            /\ last_get[i].waiting[j] < last_get[i].task
            /\ tasks[last_get[i].task].priority < tasks[last_get[i].waiting[j]].priority

\* C2: of two tasks of the same priority, the one enqueue_task was called for first
\* is dequeued for its first attempt before the other (a task is PENDING exactly
\* until it is dequeued for the first time).
C2_FifoWithinPriority ==
    \A a, b \in TaskIds :
        (a < b /\ tasks[a].priority = tasks[b].priority /\ tasks[b].status # PENDING)
            => tasks[a].status # PENDING

\* C3: a task whose handler fails k times and then succeeds is COMPLETED with
\* metrics.retry_count = k, and its one task_completed event carries the value the
\* handler returned.
C3_CompletedAfterRetries ==
    \A t \in TaskIds :
        LET a == attempts[t]
            done == EventsOf(t, "queue_manager.task_completed")
        IN  /\ (a # << >> /\ ~Failed(Last(a))) =>
                   /\ \A i \in 1..(Len(a) - 1) : Failed(a[i])
                   /\ tasks[t].status = COMPLETED
                   /\ tasks[t].metrics.retry_count = Len(a) - 1
                   /\ Len(done) = 1
                   /\ done[1].data.result = Last(a).value
                   /\ done[1].data.retry_count = Len(a) - 1
            /\ tasks[t].status = COMPLETED => (a # << >> /\ ~Failed(Last(a)))

\* a handler has failed once (k = 1 < max_retries = 2) and then returned 2
C3_Witness ==
    \E t \in TaskIds :
        /\ tasks[t].status = COMPLETED
        /\ tasks[t].max_retries = 2
        /\ tasks[t].metrics.retry_count = 1
        /\ Last(attempts[t]).value = 2

\* C4: a task whose handler fails on every attempt is FAILED with
\* metrics.retry_count = max_retries after max_retries + 1 handler invocations, and
\* exactly one task_failed event is published for it.
C4_FailedAfterMaxRetries ==
    \A t \in TaskIds :
        LET a == attempts[t]
            allfail == \A i \in 1..Len(a) : Failed(a[i])
        IN  /\ allfail => Len(a) <= tasks[t].max_retries + 1
            /\ (allfail /\ Len(a) = tasks[t].max_retries + 1) =>
                   /\ tasks[t].status = FAILED
                   /\ tasks[t].metrics.retry_count = tasks[t].max_retries
                   /\ Len(EventsOf(t, "queue_manager.task_failed")) = 1
            /\ tasks[t].status = FAILED =>
                   (allfail /\ Len(a) = tasks[t].max_retries + 1)
            /\ tasks[t].status # FAILED => Len(EventsOf(t, "queue_manager.task_failed")) = 0

\* the scenario of the spec: max_retries = 2, three failing invocations
C4_Witness ==
    \E t \in TaskIds :
        /\ tasks[t].status = FAILED
        /\ tasks[t].max_retries = 2
        /\ Len(attempts[t]) = 3

\* C5: a handler failure of a kind outside the retry allow-list makes the task FAILED
\* after exactly one handler invocation, with metrics.retry_count = 0 and no
\* task_retry event, whatever max_retries is.
C5_NonRetryableFailsAtOnce ==
    \A t \in TaskIds :
        (/\ attempts[t] # << >>
         /\ Failed(attempts[t][1])
         /\ attempts[t][1].outcome \notin RetryableKinds \cup {"nohandler"})
            => /\ tasks[t].status = FAILED
               /\ Len(attempts[t]) = 1
               /\ tasks[t].metrics.retry_count = 0
               /\ Len(EventsOf(t, "queue_manager.task_retry")) = 0

\* C6: a task whose type has no handler is FAILED as soon as a worker has dequeued
\* it: it is not put back into the queue, metrics.retry_count stays 0 and no
\* task_retry event is published for it.
C6_UnregisteredFailsAtOnce ==
    \A t \in TaskIds :
        (tasks[t].type \notin task_handlers /\ tasks[t].status # PENDING)
            => /\ tasks[t].status = FAILED
               /\ tasks[t].metrics.retry_count = 0
               /\ Len(EventsOf(t, "queue_manager.task_retry")) = 0
               /\ \A i \in 1..Len(queue) : queue[i] # t

\* C7: stop() returns whenever every handler call terminates (while it waits, the
\* manager can always take a step), and when it has returned every task is
\* COMPLETED, FAILED or CANCELLED and no worker loop is active.
C7_StopReturns ==
    /\ stop_pc \in {"join", "gather"} => ENABLED QueueProgress
    /\ stop_pc = "returned" =>
           /\ \A t \in TaskIds : tasks[t].status \in Terminal
           /\ \A w \in DOMAIN workers : workers[w].pc = "done"

(***************************************************************************)
(* The life of a task: enqueue, attempts, retries, cancellation.           *)
(***************************************************************************)
\* the owner of a waiting task cancels it
Cancel ==
    \E t \in DOMAIN tasks : set_cancelled(t)

\* Registered handlers that return or raise a transient error, max_retries 0 or
\* MaxRetriesArg, tasks cancelled while they wait
NextLifecycle ==
    \/ StartOnce
    \/ Enqueue(RetryTasks, {"echo"}, {NORMAL}, {0, MaxRetriesArg}, {1})
    \/ WorkerStep({1}, {"NETWORK"})
    \/ Cancel

SpecLifecycle == Init /\ [][NextLifecycle]_vars

\* Failures that are not transient: registered handlers that raise a permanent
\* error, unregistered types, max_retries 0 or MaxRetriesArg
NextFailures ==
    \/ StartOnce
    \/ Enqueue(RetryTasks, {"echo", "unknown"}, {NORMAL}, {0, MaxRetriesArg}, {1})
    \/ WorkerStep({1}, {"SYSTEM"})

SpecFailures == Init /\ [][NextFailures]_vars

\* the status changes of the state machine of a task
Transitions ==
    {<< PENDING, RUNNING >>, << RUNNING, COMPLETED >>, << RUNNING, FAILED >>,
     << RUNNING, RETRY >>, << RETRY, PENDING >>, << PENDING, CANCELLED >>}

\* C14: every change of a task's status is PENDING->RUNNING, RUNNING->COMPLETED,
\* RUNNING->FAILED, RUNNING->RETRY, RETRY->PENDING or PENDING->CANCELLED (with
\* registered handlers a step of the manager changes the status of a task at most
\* once, so every change is a step of the model).
C14_StatusTransitions ==
    [][\A t \in DOMAIN tasks :
          tasks'[t].status # tasks[t].status
              => << tasks[t].status, tasks'[t].status >> \in Transitions]_vars

\* C15: in every state and for every task, metrics.retry_count <= max_retries.
C15_RetryCountBounded ==
    \A t \in TaskIds : tasks[t].metrics.retry_count <= tasks[t].max_retries

\* a task has used up its retries, and a task with max_retries = 0 has failed
C15_Witness ==
    /\ \E t \in TaskIds :
           /\ tasks[t].max_retries > 0
           /\ tasks[t].metrics.retry_count = tasks[t].max_retries
           /\ tasks[t].status = FAILED
    /\ \E t \in TaskIds :
           /\ tasks[t].max_retries = 0
           /\ tasks[t].status = FAILED

\* C16: a task cancelled while it waits keeps status CANCELLED, its handler is never
\* invoked, it never becomes RUNNING (no task_started), and one task_cancelled event
\* is published for it.
C16_CancelledStaysCancelled ==
    [][\A t \in DOMAIN tasks :
          tasks[t].status = CANCELLED
              => /\ tasks'[t].status = CANCELLED
                 /\ attempts'[t] = << >>
                 /\ \A i \in 1..Len(published'[t]) :
                        published'[t][i].type # "queue_manager.task_started"
                 /\ \E i \in 1..Len(published'[t]) :
                        published'[t][i].type = "queue_manager.task_cancelled"]_vars

\* the types of the events published about task t, in order
EventTypesOf(t) == [i \in 1..Len(published[t]) |-> published[t][i].type]

\* C17: the events about a task are task_queued, then task_started for each attempt
\* with one task_retry between two attempts, then one task_completed or task_failed
\* and nothing after it; a COMPLETED or FAILED task has its terminal event.
C17_EventSequence ==
    \A t \in TaskIds :
        LET ev == EventTypesOf(t)
            n == Len(ev)
        IN  /\ n >= 1
            /\ \A i \in 1..n :
                   /\ i = 1 => ev[i] = "queue_manager.task_queued"
                   /\ (i > 1 /\ i % 2 = 0) => ev[i] = "queue_manager.task_started"
                   /\ (i > 1 /\ i % 2 = 1) =>
                          ev[i] \in {"queue_manager.task_retry", "queue_manager.task_completed",
                                     "queue_manager.task_failed"}
                   /\ ev[i] \in {"queue_manager.task_completed", "queue_manager.task_failed"}
                          => i = n
            /\ Len(EventsOf(t, "queue_manager.task_started")) \in
                   {Len(attempts[t]), Len(attempts[t]) + 1}
            /\ tasks[t].status = COMPLETED => ev[n] = "queue_manager.task_completed"
            /\ tasks[t].status = FAILED => ev[n] = "queue_manager.task_failed"
            /\ tasks[t].status \notin {COMPLETED, FAILED} =>
                   ev[n] \notin {"queue_manager.task_completed", "queue_manager.task_failed"}

\* a task has failed, was retried, and has completed on its second attempt
C17_Witness ==
    \E t \in TaskIds :
        EventTypesOf(t) = << "queue_manager.task_queued", "queue_manager.task_started",
                             "queue_manager.task_retry", "queue_manager.task_started",
                             "queue_manager.task_completed" >>

\* task t waits in the priority queue
Queued(q, t) == \E i \in 1..Len(q) : q[i] = t

\* C27: once the status of a task is COMPLETED, FAILED or CANCELLED, no step changes
\* a field of the task, puts it into the priority queue, hands it to a worker or
\* calls a handler for it.
C27_TerminalImmutable ==
    [][\A t \in DOMAIN tasks :
          tasks[t].status \in Terminal
              => /\ tasks'[t] = tasks[t]
                 /\ attempts'[t] = attempts[t]
                 /\ Queued(queue', t) => Queued(queue, t)
                 /\ \A w \in DOMAIN workers' : workers'[w].task # t]_vars

\* a task cancelled while it waited has been dequeued and skipped, and another task
\* has completed or failed
C27_Witness ==
    \E t1, t2 \in TaskIds :
        /\ tasks[t1].status = CANCELLED
        /\ ~Queued(queue, t1)
        /\ tasks[t2].status \in {COMPLETED, FAILED}

\* C28: every task that a worker has finished handling with status COMPLETED, FAILED
\* or CANCELLED (it is neither in the queue nor in a worker's hands) has
\* completed_at set, a cancelled task that a worker has dequeued and skipped
\* included.
C28_CompletedAtSet ==
    \A t \in TaskIds :
        ( /\ tasks[t].status \in Terminal
          /\ ~Queued(queue, t)
          /\ \A w \in DOMAIN workers : workers[w].task # t )
        => tasks[t].completed_at # None

(***************************************************************************)
(* Intake: enqueue_task on a manager that is not running, correlation ids  *)
(***************************************************************************)
\* the error.occurred events the wrapper has published for the manager's methods
Raised == SelectSeq(published[NoTask], LAMBDA e : e.type = "error.occurred")

\* at most MaxRejected calls of enqueue_task while the manager is not running
EnqueueRejected ==
    /\ ~running
    /\ Len(Raised) < MaxRejected
    /\ \E c \in {None, "a"} : enqueue_task("echo", 1, NORMAL, c, 1, 1)

\* A manager whose callers call enqueue_task before start(), while it runs and
\* after stop()
NextIntake ==
    \/ StartOnce
    \/ Enqueue(RetryTasks, {"echo"}, {NORMAL}, {1}, {1})
    \/ EnqueueRejected
    \/ WorkerStep({1}, {"NETWORK"})
    \/ StopStep

SpecIntake == Init /\ [][NextIntake]_vars

\* C24: on a manager that is not running (before start(), after stop() was called)
\* every call of enqueue_task raises QueueProcessingError (the one more
\* error.occurred event of the wrapper), leaves the task table, the priority queue
\* and the correlation index as they are and publishes no task_queued event (no
\* event about a task).
C24_EnqueueRejectedWhenStopped ==
    ~running =>
        \A c \in {None, "a"} :
            /\ ENABLED enqueue_task("echo", 1, NORMAL, c, 1, 1)
            /\ ~ENABLED ( /\ enqueue_task("echo", 1, NORMAL, c, 1, 1)
                          /\ ~ ( /\ tasks' = tasks
                                 /\ queue' = queue
                                 /\ unfinished_tasks' = unfinished_tasks
                                 /\ correlated_tasks' = correlated_tasks
                                 /\ DOMAIN published' = DOMAIN published
                                 /\ \A t \in DOMAIN tasks : published'[t] = published[t]
                                 /\ published'[NoTask] =
                                        Append(published[NoTask],
                                               error_occurred("Cannot enqueue task")) ) )

\* stop() has been called while a task waits in the queue, and an enqueue_task call
\* after it has been rejected
C24_Witness ==
    /\ stop_pc # "idle"
    /\ ~running
    /\ queue # << >>
    /\ Len(published[NoTask]) > 1
    /\ Last(published[NoTask]).type = "error.occurred"

CorrelationIds == {None, "", "a", "b"}

\* at most MaxTasks tasks, with and without a correlation id
EnqueueCorrelated ==
    /\ running
    /\ Len(tasks) < MaxTasks
    /\ \E c \in CorrelationIds : enqueue_task("echo", 1, NORMAL, c, 0, 1)

NextCorrelation ==
    \/ StartOnce
    \/ EnqueueCorrelated
    \/ WorkerStep({1}, {"SYSTEM"})

SpecCorrelation == Init /\ [][NextCorrelation]_vars

\* the ids of the tasks enqueued with correlation id c, in enqueue order
IdsWith(c) == SelectSeq([i \in 1..Len(tasks) |-> i], LAMBDA i : tasks[i].correlation_id = c)

\* C26: for every non-empty correlation id c, correlated_tasks[c] is the list of the
\* ids of the tasks enqueued with correlation id c, each once and in enqueue order
\* (no entry when there is none), and every id listed is a key of the task table.
C26_CorrelationIndex ==
    /\ \A c \in CorrelationIds \ {None, ""} :
           IF IdsWith(c) = << >>
           THEN c \notin DOMAIN correlated_tasks
           ELSE c \in DOMAIN correlated_tasks /\ correlated_tasks[c] = IdsWith(c)
    /\ \A c \in DOMAIN correlated_tasks :
           \A i \in 1..Len(correlated_tasks[c]) : correlated_tasks[c][i] \in TaskIds

\* two tasks share a correlation id and a task between them has none
C26_Witness ==
    /\ Len(tasks) = 3
    /\ tasks[2].correlation_id \in {None, ""}
    /\ "a" \in DOMAIN correlated_tasks
    /\ correlated_tasks["a"] = << 1, 3 >>

(***************************************************************************)
(* stop() called again                                                     *)
(***************************************************************************)
\* the queue_manager.stopped events: one for each stop() that has returned
Stopped == SelectSeq(published[NoTask], LAMBDA e : e.type = "queue_manager.stopped")

\* stop() is called again after a stop() has returned, MaxStops calls in all
StopAgain ==
    /\ stop_pc = "returned"
    /\ Len(Stopped) < MaxStops
    /\ stop_call

NextStopTwice ==
    \/ StartOnce
    \/ Enqueue(RetryTasks, {"echo"}, {NORMAL}, {1}, {1})
    \/ WorkerStep({1}, {"NETWORK"})
    \/ StopStep
    \/ StopAgain

SpecStopTwice == Init /\ [][NextStopTwice]_vars

\* C25: once a stop() has returned, a further call of stop() can be made, raises
\* nothing and returns (it publishes queue_manager.stopped as a stop() that ends
\* normally does, and no error.occurred), and leaves the task table, the queue, the
\* worker list and the metrics as the first call left them.
C25_StopTwice ==
    stop_pc = "returned" =>
        /\ ENABLED stop_call
        /\ ~ENABLED ( /\ stop_call
                      /\ ~ ( /\ stop_pc' = "returned"
                             /\ tasks' = tasks
                             /\ queue' = queue
                             /\ unfinished_tasks' = unfinished_tasks
                             /\ workers' = workers
                             /\ metrics' = metrics
                             /\ running' = running
                             /\ published'[NoTask] =
                                    Append(published[NoTask],
                                           Event("queue_manager.stopped", "queue_manager",
                                                 TaskData(NoTask, NoResult, 0))) ) )

\* stop() has returned twice on a manager that has processed a task
C25_Witness ==
    /\ stop_pc = "returned"
    /\ Len(Stopped) = 2
    /\ metrics.processed_tasks > 0
    /\ \E t \in TaskIds : tasks[t].status = COMPLETED

(***************************************************************************)
(* The worker loops: unexpected exceptions, start() called again           *)
(***************************************************************************)
\* at most MaxFaults unexpected exceptions in the body of a worker's loop
Fault ==
    /\ Len(Raised) < MaxFaults
    /\ \E w \in DOMAIN workers, where \in {"status", "queue_time"} : loop_body_raises(w, where)

\* A running manager whose handlers fail for good and whose worker loops meet
\* unexpected exceptions
NextWorkerFaults ==
    \/ StartOnce
    \/ Enqueue(RetryTasks, {"echo", "unknown"}, {NORMAL}, {0, 1}, {1})
    \/ WorkerStep({1}, {"SYSTEM"})
    \/ Fault

SpecWorkerFaults == Init /\ [][NextWorkerFaults]_vars

\* the worker loops that have not ended
ActiveWorkers == {w \in DOMAIN workers : workers[w].pc # "done"}

\* C29: while the manager is running, max_concurrent_tasks worker loops are active:
\* neither a failing task nor an unexpected exception in the body of the loop ends
\* a worker.
C29_WorkersSurvive ==
    running => Cardinality(ActiveWorkers) = max_concurrent_tasks

\* a worker loop has met an unexpected exception; a task is out of the queue and of
\* the workers' hands without having completed (it failed, or the exception lost
\* it), and a task enqueued after it has completed
C29_Witness ==
    /\ Len(Raised) > 0
    /\ \E t1, t2 \in TaskIds :
           /\ t1 < t2
           /\ tasks[t1].status \in {FAILED, RUNNING, PENDING}
           /\ ~Queued(queue, t1)
           /\ \A w \in DOMAIN workers : workers[w].task # t1
           /\ tasks[t2].status = COMPLETED

\* the queue_manager.started events: one for each start()
Started == SelectSeq(published[NoTask], LAMBDA e : e.type = "queue_manager.started")

\* at most MaxStarts calls of QueueManager.start, at any time
Start ==
    /\ Len(Started) < MaxStarts
    /\ start

\* Any sequence of start(), enqueue_task() and stop() calls
NextRestart ==
    \/ Start
    \/ Enqueue(MaxTasks, {"echo"}, {NORMAL}, {0}, {1})
    \/ WorkerStep({1}, {"SYSTEM"})
    \/ StopStep

SpecRestart == Init /\ [][NextRestart]_vars

\* C30: whatever start(), enqueue_task() and stop() calls were made, at most
\* max_concurrent_tasks worker loops are active and at most max_concurrent_tasks
\* tasks have status RUNNING.
C30_AtMostMaxConcurrent ==
    /\ Cardinality(ActiveWorkers) <= max_concurrent_tasks
    /\ Cardinality({t \in TaskIds : tasks[t].status = RUNNING}) <= max_concurrent_tasks

(***************************************************************************)
(* The callers of the event bus and its subscribers.                       *)
(***************************************************************************)
EventTypes == {"documentation.ready", "review.completed"}
Callbacks == {"h1", "h2"}

\* the application starts the bus once (Agency.initialize, agency.py lines 46-54)
BusStartOnce ==
    /\ consumers = << >>
    /\ bus_stop_pc = "idle"
    /\ bus_start

\* at most MaxEvents calls of publish
Publish ==
    /\ Len(event_history) < MaxEvents
    /\ \E ty \in EventTypes : publish(Event(ty, "app", 1))

Subscription ==
    \E ty \in EventTypes, cb \in Callbacks : subscribe(ty, cb) \/ unsubscribe(ty, cb)

\* a step of a consumer; every callback returns or raises
ConsumerStep ==
    \E c \in DOMAIN consumers :
        \/ process_events_begin(c)
        \/ process_events_get(c)
        \/ \E outcome \in {"return", "raise"} : callback_done(c, outcome)

\* A started bus: publishers, subscribers coming and going, the consumer
NextBus ==
    \/ BusStartOnce
    \/ Publish
    \/ Subscription
    \/ ConsumerStep

SpecBus == Init /\ [][NextBus]_vars

\* every step the bus can take by itself once stop() has been called
BusProgress ==
    \/ ConsumerStep
    \/ \E c \in DOMAIN consumers : process_events_cancelled(c)
    \/ bus_stop_joined
    \/ bus_stop_return

\* The bus with stop()
NextBusStop ==
    \/ BusStartOnce
    \/ Publish
    \/ Subscription
    \/ ConsumerStep
    \/ bus_stop_call
    \/ bus_stop_joined
    \/ bus_stop_return
    \/ \E c \in DOMAIN consumers : process_events_cancelled(c)

SpecBusStop == Init /\ [][NextBusStop]_vars

(***************************************************************************)
(* Properties of the event bus                                             *)
(***************************************************************************)
Uids == 1..Len(event_history)

\* the callbacks invoked for the event uid, in the order of their invocation
CallsOf(uid) ==
    LET ds == SelectSeq(delivered, LAMBDA d : d.event.uid = uid)
    IN  [i \in 1..Len(ds) |-> ds[i].callback]

InQueue(uid) == \E i \in 1..Len(bus_queue) : bus_queue[i].uid = uid
InDispatch(uid) == \E c \in DOMAIN consumers : consumers[c].event.uid = uid

IsPrefix(s, t) == Len(s) <= Len(t) /\ SubSeq(t, 1, Len(s)) = s

NoDuplicates(s) == \A i, j \in 1..Len(s) : s[i] = s[j] => i = j

\* C8: every published event is delivered exactly once to each handler registered
\* for its type, and what the handler receives is the event that was published: an
\* event is waiting in the queue (no call made yet), or being dispatched (the calls
\* made are the first ones of the registered handlers), or done (one call for each
\* registered handler, none for any other).
C8_ExactlyOnceDelivery ==
    /\ \A i \in 1..Len(delivered) :
           /\ delivered[i].event.uid \in Uids
           /\ delivered[i].event = event_history[delivered[i].event.uid]
    /\ \A uid \in Uids :
           /\ NoDuplicates(CallsOf(uid))
           /\ IF InQueue(uid)
              THEN CallsOf(uid) = << >> /\ uid \notin DOMAIN dispatched
              ELSE /\ uid \in DOMAIN dispatched
                   /\ IF InDispatch(uid)
                      THEN IsPrefix(CallsOf(uid), dispatched[uid])
                      ELSE CallsOf(uid) = dispatched[uid]

\* an event has been delivered to two handlers, the first of which raised
C8_Witness ==
    \E uid \in Uids :
        /\ ~InQueue(uid)
        /\ ~InDispatch(uid)
        /\ uid \in DOMAIN dispatched
        /\ Len(dispatched[uid]) = 2
        /\ CallsOf(uid) = dispatched[uid]

\* C9: a handler is invoked for two events in the order in which publish() was
\* called for them (uids are issued in publish order).
C9_PublishOrder ==
    \A i, j \in 1..Len(delivered) :
        (i < j /\ delivered[i].callback = delivered[j].callback)
            => delivered[i].event.uid < delivered[j].event.uid

\* one handler, subscribed to both types, has been invoked for an event of each
C9_Witness ==
    \E i, j \in 1..Len(delivered) :
        /\ i < j
        /\ delivered[i].callback = delivered[j].callback
        /\ delivered[i].event.type # delivered[j].event.type

\* C10: stop() of a started bus returns whenever every handler terminates (while it
\* waits, the bus can always take a step), and when it has returned every event published before
\* the call has been dispatched and the consumer loop has exited.
C10_BusStopReturns ==
    /\ bus_stop_pc \in {"join", "await"} => ENABLED BusProgress
    /\ (bus_stop_pc = "returned" /\ bus_task # 0) =>
           /\ \A uid \in 1..bus_stop_mark : ~InQueue(uid) /\ ~InDispatch(uid)
           /\ \A c \in DOMAIN consumers : consumers[c].pc = "done"

(***************************************************************************)
(* Callbacks that fail                                                     *)
(***************************************************************************)
\* h1 raises an exception every time it is called, h2 returns
FailingCallbacks == {"h1"}
Outcome(callback) == IF callback \in FailingCallbacks THEN "raise" ELSE "return"

ConsumerStepFailing ==
    \E c \in DOMAIN consumers :
        \/ process_events_begin(c)
        \/ process_events_get(c)
        \/ callback_done(c, Outcome(consumers[c].callback))

\* at most MaxEvents events of one type
PublishReady ==
    /\ Len(event_history) < MaxEvents
    /\ publish(Event("documentation.ready", "app", 1))

\* the two callbacks subscribe to that type and unsubscribe from it, in any order
SubscriptionReady ==
    \E cb \in Callbacks :
        subscribe("documentation.ready", cb) \/ unsubscribe("documentation.ready", cb)

\* A started bus one of whose two callbacks always raises
NextBusFailing ==
    \/ BusStartOnce
    \/ PublishReady
    \/ SubscriptionReady
    \/ ConsumerStepFailing

SpecBusFailing == Init /\ [][NextBusFailing]_vars

\* some call made for the event uid has raised, or will
HasFailingCall(uid) ==
    \E i \in 1..Len(delivered) :
        delivered[i].event.uid = uid /\ delivered[i].callback \in FailingCallbacks

\* C18: when a handler raises during the dispatch of an event, the handlers
\* registered after it are still invoked (once the dispatch is over, every handler
\* of the copy has been called), the consumer loop stays alive, and the events
\* published afterwards are dispatched: none is skipped, and as long as one waits
\* the consumer can take a step.
C18_HandlerErrorIsolated ==
    /\ \A c \in DOMAIN consumers : consumers[c].pc # "done"
    /\ \A uid \in Uids :
           HasFailingCall(uid) =>
               IF InDispatch(uid)
               THEN IsPrefix(CallsOf(uid), dispatched[uid])
               ELSE CallsOf(uid) = dispatched[uid]
    /\ \A u1, u2 \in Uids : (u1 < u2 /\ ~InQueue(u2)) => ~InQueue(u1)
    /\ (consumers # << >> /\ bus_queue # << >>) => ENABLED ConsumerStepFailing

\* h1 has raised, h2 was called after it for the same event, and a handler has been
\* called for an event published later
C18_Witness ==
    \E i, j, k \in 1..Len(delivered) :
        /\ i < j /\ j < k
        /\ delivered[i].callback = "h1"
        /\ delivered[j].callback = "h2"
        /\ delivered[j].event.uid = delivered[i].event.uid
        /\ delivered[k].event.uid > delivered[i].event.uid

\* the i-th call of a callback is over: another call followed it, or no consumer is
\* in a callback any more
CallOver(i) ==
    \/ i < Len(delivered)
    \/ \A c \in DOMAIN consumers : consumers[c].pc # "callback"

\* C21: whenever a handler has raised while the bus dispatched an event of a type
\* other than error.occurred, an error.occurred event has been published for it on
\* the bus; no failure of a handler is only logged.
C21_HandlerFailurePublished ==
    \A i \in 1..Len(delivered) :
        ( /\ delivered[i].callback \in FailingCallbacks
          /\ delivered[i].event.type # "error.occurred"
          /\ CallOver(i) )
        => \E j \in 1..Len(event_history) :
               /\ event_history[j].type = "error.occurred"
               /\ event_history[j].data = delivered[i].event.uid

\* A started bus with the subscribers of one type of event
NextBusOrder ==
    \/ BusStartOnce
    \/ PublishReady
    \/ SubscriptionReady
    \/ ConsumerStep

SpecBusOrder == Init /\ [][NextBusOrder]_vars

\* t is s without one of its elements
OneRemoved(s, t) ==
    /\ Len(t) = Len(s) - 1
    /\ \E i \in 1..Len(s) : t = SubSeq(s, 1, i - 1) \o SubSeq(s, i + 1, Len(s))

SubscribersOf(subs, ty) == IF ty \in DOMAIN subs THEN subs[ty] ELSE << >>

\* the calls made so far are, event by event, the first ones of the event's
\* handlers in the order of the subscriber list; all handlers of an event have been
\* called, and the last call is over, when the first call for another event is made
DispatchInOrder ==
    /\ \A uid \in Uids :
           IF uid \in DOMAIN dispatched
           THEN IsPrefix(CallsOf(uid), dispatched[uid])
           ELSE CallsOf(uid) = << >>
    /\ \A i \in 1..Len(delivered) :
           delivered[i].event.uid # Last(delivered).event.uid
               => /\ CallsOf(delivered[i].event.uid) = dispatched[delivered[i].event.uid]
                  /\ ~InDispatch(delivered[i].event.uid)
    /\ \A c \in DOMAIN consumers :
           consumers[c].pc = "callback" =>
               /\ consumers[c].event.uid = Last(delivered).event.uid
               /\ consumers[c].callback = Last(delivered).callback

\* C19: the handlers of an event are invoked one after another in the order in which
\* they were subscribed (a subscribe puts the handler behind those subscribed before
\* it, an unsubscribe keeps the order of the others, and the handlers of an event
\* are the subscriber list as it is when the event is taken from the queue), and
\* the last of them has returned or raised before a handler is invoked for the next
\* event.
C19_SubscriptionOrder ==
    [][/\ \A ty \in DOMAIN subscribers' :
              LET old == SubscribersOf(subscribers, ty)
                  new == subscribers'[ty]
              IN  new # old =>
                      \/ Len(new) = Len(old) + 1 /\ SubSeq(new, 1, Len(old)) = old
                      \/ OneRemoved(old, new)
       /\ \A uid \in DOMAIN dispatched' :
              uid \notin DOMAIN dispatched
                  => dispatched'[uid] = SubscribersOf(subscribers, event_history[uid].type)
       /\ DispatchInOrder']_vars

\* h2 was subscribed before h1: an event has been delivered to h2 and then to h1,
\* and after that a handler has been called for the next event
C19_Witness ==
    \E uid \in Uids :
        /\ uid \in DOMAIN dispatched
        /\ dispatched[uid] = << "h2", "h1" >>
        /\ CallsOf(uid) = << "h2", "h1" >>
        /\ Len(delivered) > 0
        /\ Last(delivered).event.uid > uid

Registered(ty, cb) ==
    \E i \in 1..Len(SubscribersOf(subscribers, ty)) : subscribers[ty][i] = cb

\* C23: subscribe(t, h) with h registered for t leaves the subscriber lists as they
\* are, so that h is called once for an event of type t; unsubscribe(t, h) with h
\* not registered for t, or t unknown, changes nothing; neither raises (both can
\* always be called); a handler subscribed to a type that has others is put behind
\* them and all are kept.
C23_IdempotentRegistration ==
    /\ \A ty \in EventTypes, cb \in Callbacks :
           /\ ENABLED subscribe(ty, cb)
           /\ ENABLED unsubscribe(ty, cb)
           /\ Registered(ty, cb) =>
                  ~ENABLED (subscribe(ty, cb) /\ subscribers' # subscribers)
           /\ ~Registered(ty, cb) =>
                  /\ ~ENABLED (unsubscribe(ty, cb) /\ subscribers' # subscribers)
                  /\ ~ENABLED ( /\ subscribe(ty, cb)
                                /\ subscribers'[ty] # Append(SubscribersOf(subscribers, ty), cb) )
    /\ \A ty \in DOMAIN subscribers : NoDuplicates(subscribers[ty])
    /\ \A uid \in Uids : NoDuplicates(CallsOf(uid))

\* both handlers are registered for a type, the other type is unknown, and an event
\* has been delivered once to each of the two
C23_Witness ==
    /\ SubscribersOf(subscribers, "documentation.ready") = << "h1", "h2" >>
    /\ "review.completed" \notin DOMAIN subscribers
    /\ \E uid \in Uids :
           /\ uid \in DOMAIN dispatched
           /\ ~InDispatch(uid)
           /\ CallsOf(uid) = << "h1", "h2" >>

(***************************************************************************)
(* start() called more than once                                           *)
(***************************************************************************)
\* at most MaxStarts calls of EventBus.start, none after stop()
BusStart ==
    /\ Len(consumers) < MaxStarts
    /\ bus_stop_pc = "idle"
    /\ bus_start

NextBusRestart ==
    \/ BusStart
    \/ PublishReady
    \/ SubscriptionReady
    \/ ConsumerStep

SpecBusRestart == Init /\ [][NextBusRestart]_vars

\* the consumer loops that take events from the queue: suspended in _queue.get() or
\* in the call of a callback
Consuming == {c \in DOMAIN consumers : consumers[c].pc \in {"get", "callback"}}

\* C22: after one or more calls of start(), exactly one consumer loop consumes the
\* queue of the bus: a loop exists, and no two loops take events from the queue.
C22_SingleConsumerLoop ==
    bus_task # 0 =>
        /\ \E c \in DOMAIN consumers : consumers[c].pc # "done"
        /\ Cardinality(Consuming) <= 1

(***************************************************************************)
(* error.occurred and a handler of it that fails                           *)
(***************************************************************************)
\* on_error is decorated with with_error_handling and raises every time; log_error
\* is a plain callback that returns
ErrorCallbacks == {"on_error", "log_error"}

\* a function decorated with with_error_handling fails somewhere in the program:
\* the one original failure
OriginalFailure ==
    /\ \A i \in 1..Len(event_history) : event_history[i].data # NoEvent.uid
    /\ publish(ErrorEvent(NoEvent.uid))

ErrorSubscription ==
    \E cb \in ErrorCallbacks :
        subscribe("error.occurred", cb) \/ unsubscribe("error.occurred", cb)

\* a step of the consumer; the chain of events is cut at MaxEvents + 1 events
ErrorConsumerStep ==
    \E c \in DOMAIN consumers :
        \/ process_events_begin(c)
        \/ process_events_get(c)
        \/ /\ consumers[c].callback = "on_error"
           /\ Len(event_history) <= MaxEvents
           /\ callback_fails_in_wrapper(c)
        \/ /\ consumers[c].callback # "on_error"
           /\ callback_done(c, "return")

NextErrorEvents ==
    \/ BusStartOnce
    \/ OriginalFailure
    \/ ErrorSubscription
    \/ ErrorConsumerStep

SpecErrorEvents == Init /\ [][NextErrorEvents]_vars

\* C20: the failure of a handler of error.occurred publishes no further
\* error.occurred event: every error.occurred event stems from a failure outside the
\* handlers of error.occurred, so that one original failure makes one event.
C20_NoErrorFeedback ==
    \A i \in 1..Len(event_history) :
        event_history[i].type = "error.occurred" => event_history[i].data = NoEvent.uid

(***************************************************************************)
(* The callers of the rate limiter and the passing of time.                *)
(***************************************************************************)
Models == {"gpt"}

\* at most n calls of acquire, with a cost of `costs`
Acquire(n, costs) ==
    /\ Len(rl_callers) < n
    /\ \E model \in Models, tokens \in costs : acquire_call(model, tokens)

\* a sleeping caller resumes, at the end of its sleep or later
Wake ==
    \E c \in DOMAIN rl_callers : acquire_wake_requests(c) \/ acquire_wake_tokens(c)

\* the time left until the sleep of a caller ends
TimeToWake ==
    {rl_callers[c].due - rl_now : c \in {x \in DOMAIN rl_callers :
        rl_callers[x].pc \in {"sleep_requests", "sleep_tokens"} /\ rl_callers[x].due > rl_now}}

\* time passes: one clock unit (part of a second), a window period, or what is left
\* of a caller's sleep
Tick ==
    /\ rl_ticks < MaxTicks
    /\ \E d \in {1, Period} \cup TimeToWake : clock_advances(d)

\* Callers whose cost fits into the token budget of a window
NextLimiter ==
    \/ Acquire(MaxAcquires, {1, tokens_per_minute})
    \/ Wake
    \/ Tick

SpecLimiter == Init /\ [][NextLimiter]_vars

\* Enough callers to fill a window and to have more than requests_per_minute of
\* them wait for the next one
NextLimiterBurst ==
    \/ Acquire(2 * requests_per_minute + 1, {1, tokens_per_minute})
    \/ Wake
    \/ Tick

SpecLimiterBurst == Init /\ [][NextLimiterBurst]_vars

\* Costs beyond the token budget of a window
NextLimiterCosts ==
    \/ Acquire(MaxAcquires, {1, tokens_per_minute + 1})
    \/ Wake
    \/ Tick

SpecLimiterCosts == Init /\ [][NextLimiterCosts]_vars

(***************************************************************************)
(* Properties of the rate limiter                                          *)
(***************************************************************************)
\* C11: an acquire() that finds the window of its key holding requests_per_minute
\* requests does not return before 60 s have passed since that window's start_time.
C11_WaitsForWindowReset ==
    \A i \in 1..Len(rl_grants) :
        rl_grants[i].waited_for # NotWaited
            => rl_grants[i].time >= rl_grants[i].waited_for + Period

\* C12: for every window created for a key, at most requests_per_minute acquires of
\* that key return within the window period that follows its creation, whatever the
\* interleaving of the callers.
C12_AtMostLimitPerWindow ==
    \A s \in rl_starts :
        Cardinality({i \in 1..Len(rl_grants) :
                        /\ rl_grants[i].model = s.model
                        /\ rl_grants[i].time >= s.start_time
                        /\ rl_grants[i].time < s.start_time + Period}) <= requests_per_minute

\* C13: when acquire() returns, the window of its key holds at most
\* requests_per_minute requests and at most tokens_per_minute tokens.
C13_WindowWithinLimits ==
    \A i \in 1..Len(rl_grants) :
        /\ rl_grants[i].requests <= requests_per_minute
        /\ rl_grants[i].tokens <= tokens_per_minute

\* three acquires made within the first window (limit 2), the third of them part of
\* a second into it: two are granted in the window, the third after its period
C11_Witness ==
    /\ Len(rl_grants) >= 3
    /\ rl_grants[1].waited_for = NotWaited
    /\ rl_grants[2].waited_for = NotWaited
    /\ rl_grants[2].time = 1
    /\ rl_grants[3].waited_for = 0
    /\ rl_grants[3].time = 1 + Period

(***************************************************************************)
(* Decorated functions and their failures.                                 *)
(***************************************************************************)
\* the decorators: @with_error_handling(category, severity)
Decorators == { << "QUEUE", "HIGH" >>, << "API", "MEDIUM" >> }

\* what the n-th invocation of a decorated function can raise
Raisable(n) == { PlainError(n), DocSmithError(n, "NETWORK", "LOW"),
                 DocSmithError(n, "SYSTEM", "CRITICAL") }

WrapperCall ==
    /\ Len(calls) < MaxCalls
    /\ \E d \in Decorators : wrapper_call(d[1], d[2])

WrapperStep ==
    \E c \in DOMAIN calls :
        \/ func_returns(c)
        \/ \E e \in Raisable(calls[c].invocations) : func_raises_first(c, e)
        \/ \E e \in Raisable(calls[c].invocations) : func_raises_again(c, e)
        \/ wrapper_wakes(c)

NextWrapper ==
    \/ WrapperCall
    \/ WrapperStep

SpecWrapper == Init /\ [][NextWrapper]_vars

\* C31: the wrapper invokes the function again only after a failure of a kind on
\* the retry allow-list; after a failure of any other kind the error is raised
\* and the function has been invoked once.
C31_RetryOnlyAllowedKinds ==
    \A c \in DOMAIN calls :
        (calls[c].error # NoError /\ calls[c].error.category \notin RetryableKinds)
            => /\ calls[c].pc = "raised"
               /\ calls[c].invocations = 1

\* C32: when the first invocation and every retry have failed, the wrapper raises
\* the error of the last invocation, it has not returned, and the function has
\* been invoked at most 1 + MAX_RETRIES times.
C32_LastErrorRaised ==
    \A c \in DOMAIN calls :
        /\ calls[c].invocations <= 1 + MAX_RETRIES
        /\ (calls[c].pc = "returned" /\ calls[c].error # NoError)
              => calls[c].last_error.message # calls[c].invocations
        /\ calls[c].pc = "raised"
              => /\ calls[c].raised.docsmith
                 /\ calls[c].raised.message = calls[c].invocations

\* the retries are exhausted: 1 + MAX_RETRIES invocations, all failed, the last
\* with an exception that is not a DocSmithError
C32_Witness ==
    \E c \in DOMAIN calls :
        /\ calls[c].pc = "raised"
        /\ calls[c].invocations = 1 + MAX_RETRIES
        /\ ~calls[c].last_error.docsmith
        /\ calls[c].raised.message = 1 + MAX_RETRIES

(***************************************************************************)
(* Properties of the workers                                               *)
(***************************************************************************)
\* the workers that have dequeued task t and not finished its handling
Holders(t) == {w \in DOMAIN workers : workers[w].task = t}

\* how often task t is in the priority queue
Occurrences(q, t) == Cardinality({i \in 1..Len(q) : q[i] = t})

\* C33: no two workers hold the same task: a task is in the priority queue at most
\* once, and not at all while the worker that dequeued it has not finished its
\* handling, the retry included.
C33_NoTaskHeldTwice ==
    \A t \in TaskIds :
        /\ Cardinality(Holders(t)) <= 1
        /\ Occurrences(queue, t) <= 1
        /\ Occurrences(running_tasks, t) = Cardinality(Holders(t))
        /\ Holders(t) # {} => ~Queued(queue, t)

\* one worker is in the backoff sleep of a task while another runs the handler of a
\* task that has been through a retry and the queue
C33_Witness ==
    \E w1, w2 \in DOMAIN workers :
        /\ workers[w1].pc = "sleep"
        /\ workers[w2].pc = "handler"
        /\ workers[w1].task # workers[w2].task
        /\ tasks[workers[w2].task].metrics.retry_count > 0

\* C34: a failed attempt that is to be retried does not occupy its worker during
\* the backoff delay: while the task waits for its re-enqueue no worker holds it.
C34_BackoffFreesWorker ==
    \A t \in TaskIds :
        (tasks[t].status = RETRY /\ ~Queued(queue, t)) => Holders(t) = {}

\* Backoff: handlers that fail up to MaxRetriesArg + 1 times in a row
NextBackoff ==
    \/ StartOnce
    \/ Enqueue(RetryTasks, {"echo"}, {NORMAL}, {MaxRetriesArg + 1}, {1})
    \/ WorkerStep({1}, {"NETWORK"})

SpecBackoff == Init /\ [][NextBackoff]_vars

\* the fixed maximum of the backoff delay, in seconds. The code has none: whatever
\* the value, the delay of line 334 exceeds it once 2^retry_count does.
MaxDelay == 4

\* C37: the delay before the n-th retry of a task is retry_delay * 2^n, and it is
\* never more than the fixed maximum delay, whatever max_retries is.
C37_BackoffCapped ==
    \A w \in DOMAIN workers :
        workers[w].pc = "sleep" =>
            LET task == tasks[workers[w].task]
            IN  /\ workers[w].delay = task.retry_delay * 2^task.metrics.retry_count
                /\ workers[w].delay <= MaxDelay

\* the handler invocations made so far for tasks of type ty: the finished ones and
\* the ones a worker is suspended in
Invocations(ty) ==
    Cardinality({p \in TaskIds \X (1..(MaxRetriesArg + 2)) :
                    tasks[p[1]].type = ty /\ p[2] <= Len(attempts[p[1]])})
    + Cardinality({w \in DOMAIN workers :
                      workers[w].pc = "handler" /\ tasks[workers[w].task].type = ty})

\* the request permits taken from the window of ty
Permits(ty) == IF ty \in DOMAIN windows THEN windows[ty].requests ELSE 0

WithStatus(s) == {t \in TaskIds : tasks[t].status = s}

RECURSIVE RetriesUpTo(_)
\* the sum of metrics.retry_count over the tasks 1..n
RetriesUpTo(n) == IF n = 0 THEN 0 ELSE tasks[n].metrics.retry_count + RetriesUpTo(n - 1)

\* C36: between the steps of the workers, metrics['processed_tasks'] is the number
\* of COMPLETED tasks, metrics['failed_tasks'] the number of FAILED tasks and
\* metrics['retry_count'] the sum of the retry_count of all tasks.
C36_MetricsMatchTasks ==
    /\ metrics.processed_tasks = Cardinality(WithStatus(COMPLETED))
    /\ metrics.failed_tasks = Cardinality(WithStatus(FAILED))
    /\ metrics.retry_count = RetriesUpTo(Len(tasks))

\* one task completed after a retry, another failed after its retries
C36_Witness ==
    /\ metrics.processed_tasks = 1
    /\ metrics.failed_tasks = 1
    /\ metrics.retry_count >= 2
    /\ \E t \in WithStatus(COMPLETED) : tasks[t].metrics.retry_count > 0

\* Timeouts: handlers that return, raise, or are still running when the timeout of
\* their task elapses; max_retries 0 or 1
WorkerStepTimed ==
    \/ WorkerStep({1}, {"NETWORK"})
    \/ \E w \in DOMAIN workers : handler_times_out(w)

NextTimeout ==
    \/ StartOnce
    \/ Enqueue(RetryTasks, {"echo"}, {NORMAL}, {0, 1}, {1})
    \/ WorkerStepTimed

SpecTimeout == Init /\ [][NextTimeout]_vars

\* attempt i of task t is over and the task is, or has been, on its way to the
\* next attempt
Retried(t, i) ==
    /\ tasks[t].metrics.retry_count >= i
    /\ \/ Len(attempts[t]) > i
       \/ tasks[t].status = RETRY
       \/ Queued(queue, t)
       \/ \E w \in Holders(t) : workers[w].pc = "handler"

\* C38: a handler call that is still running when the timeout of its task elapses
\* is abandoned and counts as a failed attempt: the task is retried while its
\* retry_count is less than max_retries, otherwise it is FAILED.
C38_TimeoutIsFailedAttempt ==
    \A t \in TaskIds :
        \A i \in 1..Len(attempts[t]) :
            attempts[t][i].outcome = "timeout" =>
                /\ i = Len(attempts[t]) => tasks[t].status # COMPLETED
                /\ IF i - 1 < tasks[t].max_retries
                   THEN Retried(t, i)
                   ELSE /\ tasks[t].status = FAILED
                        /\ Len(attempts[t]) = i
                        /\ Len(EventsOf(t, "queue_manager.task_failed")) = 1

\* a task has timed out twice with max_retries = 1 and is FAILED, another has timed
\* out once and then completed
C38_Witness ==
    \E t, u \in TaskIds :
        /\ tasks[t].status = FAILED
        /\ Len(attempts[t]) = 2
        /\ \A i \in 1..2 : attempts[t][i].outcome = "timeout"
        /\ tasks[u].status = COMPLETED
        /\ attempts[u][1].outcome = "timeout"

(***************************************************************************)
(* Progress of the tasks. The manager keeps running (no stop()), at most   *)
(* RetryTasks tasks are enqueued, and the event loop is fair: a worker     *)
(* that can take a step takes one - a coroutine that is ready is run, a    *)
(* sleep ends, and a handler call returns, raises or times out.            *)
(***************************************************************************)
\* the steps of worker w
WorkerRuns(w) ==
    /\ w \in DOMAIN workers
    /\ \/ process_tasks_begin(w)
       \/ process_tasks_get(w)
       \/ handler_returns(w, 1)
       \/ handler_raises(w, "NETWORK")
       \/ handler_times_out(w)
       \/ process_tasks_requeue(w)

NextLive ==
    \/ StartOnce
    \/ Enqueue(RetryTasks, {"echo", "unknown"}, {NORMAL}, {1}, {1})
    \/ \E w \in 1..max_concurrent_tasks : WorkerRuns(w)

\* ENABLED <<WorkerRuns(w)>>_vars as a predicate on the worker and the queue: a worker
\* that has not run yet, is in a handler call or in a backoff sleep can take a step,
\* one suspended in queue.get() can when the queue holds a task
CanRun(w) ==
    /\ w \in DOMAIN workers
    /\ \/ workers[w].pc \in {"new", "handler", "sleep"}
       \/ workers[w].pc = "get" /\ ~workers[w].cancel /\ queue # << >>

\* weak fairness of the steps of worker w: WF_vars(WorkerRuns(w)), spelled out by its
\* definition with CanRun(w) for ENABLED <<WorkerRuns(w)>>_vars
FairWorker(w) == []<>(~CanRun(w)) \/ []<><<WorkerRuns(w)>>_vars

FairWorkers == \A w \in 1..max_concurrent_tasks : FairWorker(w)

SpecLive == Init /\ [][NextLive]_vars /\ FairWorkers

\* task t has been enqueued and has reached COMPLETED or FAILED
Finished(t) == t \in TaskIds /\ tasks[t].status \in {COMPLETED, FAILED}

\* C39: while the manager keeps running, with finitely many tasks enqueued, handler
\* calls that all return, raise or time out and a fair scheduling of the workers,
\* every enqueued task eventually reaches COMPLETED or FAILED.
C39_EveryTaskFinishes ==
    \A t \in 1..RetryTasks : (t \in TaskIds) ~> Finished(t)

\* every task that can be enqueued has been and is finished, one of them after a
\* retry that followed a timeout
C39_Witness ==
    /\ Len(tasks) = RetryTasks
    /\ \A t \in TaskIds : Finished(t)
    /\ \E t \in TaskIds :
           /\ Len(attempts[t]) = 2
           /\ attempts[t][1].outcome = "timeout"

====
